---- MODULE Spec2Model ----
(***************************************************************************)
(* Model of the reconciliation helpers of provider-grafana:                *)
(*   - the value comparator of package common (CompareMap, CompareSlice,   *)
(*     compareComparable, CompareMapKeys, CompareOptional),                *)
(*   - the membership delta of the organization controller (mapUsers,      *)
(*     userChanges, addUserIdsToChanges, updateUsers).                     *)
(***************************************************************************)
EXTENDS Integers, Sequences, FiniteSets, TLC

VARIABLES
    cmpDesired,   \* first argument of the comparator call
    cmpActual,    \* second argument of the comparator call
    cmpFn,        \* the comparator function that was called ("" before the call)
    cmpFirst,     \* the key the range loop of CompareMap visited first
    cmpResult,    \* outcome of the call: "pending" before it, then "true", "false", "error" or "panic"
    optDesired,   \* CompareOptional: the desired pointer, [present, val]
    optActual,    \* CompareOptional: the actual value
    optDefault,   \* CompareOptional: the default value
    optResult,    \* CompareOptional: "pending", then "true" or "false"
    usrSpec,        \* cr.Spec.ForProvider: the desired role lists and CreateUsers
    usrActual,      \* the observed role lists handed to updateUsers
    grafanaUsers,   \* Grafana's user directory: email -> user ID
    orgUsers,       \* Grafana's members of the organization: email -> role
    nextUserID,     \* the ID Grafana gives the next user created
    usrPc,          \* position in updateUsers: "idle", "start", "list", "resolve", "apply", "done"
    usrStateUsers,  \* mapUsers(actual)
    usrConfigUsers, \* mapUsers(cr.Spec.ForProvider)
    usrChanges,     \* the changes userChanges returned
    gUserMap,       \* addUserIdsToChanges: email -> ID, built from the directory listing
    usrOutput,      \* addUserIdsToChanges: the changes that carry an ID
    usrIdx,         \* index of the next change in the running loop
    usrErr,         \* the error updateUsers returns ([kind |-> "none"] for nil)
    usrCalls,       \* the gateway calls issued so far, in order
    pgFn,         \* the listing function that runs ("" when none)
    pgListing,    \* the elements the gateway holds, in the order it lists them
    pgPerpage,    \* *params.Perpage, the page size
    pgPage,       \* page, the number of the next page to request
    pgAll,        \* allUsers / allOrgs, the elements gathered so far (nil after an error)
    pgRequests,   \* the page numbers requested so far, in order
    pgErr,        \* whether the listing function returned an error
    pgPc,         \* "idle", "loop" or "done"
    delKind,        \* the kind of the resource Delete is called on
    delStatusID,    \* the identity of the Status Record (0 for nil); for an Organization its OrgID
    delOrgs,        \* the IDs of the organizations the gateway holds
    delActiveOrg,   \* the active organization of the signed-in user, held by the gateway
    delCurrentOrg,  \* currentUser.Payload.OrgID as Delete read it
    delLowest,      \* orgId of switchToLowestOrgId
    delCalls,       \* the gateway calls of Delete, in order
    delResult,      \* "pending", then "nil", "error" or "panic"
    delPc,          \* "idle", "start", "switch", "set", "delete" or "done"
    obsKind,        \* the kind of the resource Observe is called on
    obsStatus,      \* which identity fields of the Status Record are set
    obsOrgIdIsInt,  \* whether Spec.ForProvider.OrgID parses as an integer
    obsCalls,       \* the gateway calls of the fetch, in order, with the status answered
    obsResult,      \* "pending", then "absent", "upToDate", "notUpToDate" or "error"
    obsPc,          \* "idle", "start", "match", "users" or "done"
    dsSpec,       \* cr.Spec.ForProvider of the DataSource, with its payload and secure data decoded
    dsCrName,     \* cr.Name
    dsActual,     \* atGrafana, the DataSource the gateway returned
    dsOrgId,      \* orgId, parsed from the parameters
    dsHeaders,    \* the data of the HTTP header secret
    dsResult,     \* "idle", "pending", then "true", "false", "error" or "panic"
    orgRemoteID,    \* the ID of the organization of the declared name at the gateway (0: none)
    orgStatusID,    \* Status.AtProvider.OrgID (0 for nil)
    orgFirst,       \* what the first Observe reported
    orgSecond,      \* what the Observe after Create reported
    orgCreateErr,   \* whether Create returned an error
    orgPc,          \* "idle", "observe", "create", "users", "observeAgain" or "done"
    dbSpec,       \* the declared folder and configuration of a Dashboard
    dbRemote,     \* the dashboard the gateway returned: its folder, its configuration
    dbStatus,     \* Status.AtProvider of the Dashboard: whether UID is set, ConfigJSON
    dbResult,     \* "idle", "pending", then what Observe reported
    dbSubmitted,  \* the configurations a Create or Update of this instance submitted
    rcKind,       \* the kind of the resource that is reconciled
    rcName,       \* the declared name (title) of the resource
    rcStatus,     \* the identity and the name of the Status Record
    rcRemote,     \* the names of the resources the gateway holds, by identity
    rcCalls,      \* the gateway calls of the pass so far
    rcOp,         \* the handler that ran last: "none", "Observe", "Create", "Update"
    rcResult,     \* what that handler returned
    rcNext,       \* the handler the reconciler calls next
    rcBefore,     \* the Status Record when that handler was called
    rcPass,       \* the Status Record when the pass started
    rcMark,       \* the calls of the pass made before the handler that ran last was called
    upPc,         \* "idle", "observe", "update" or "users": where the passes stand
    upObserved,   \* "pending", then what the last Observe reported
    upActual,     \* the role lists the last Observe fetched
    upResult,     \* "none", then "ok", "error", "fetchError" of the last Update ("pending" in it)
    cdOrgs,       \* the organizations the gateway holds while two deletions run
    cdActive,     \* the active organization of the one account both deletions use
    cdTarget,     \* per deletion, Status.AtProvider.OrgID of its Organization
    cdPc,         \* per deletion, "idle", "start", "switch", "set", "delete", "done"
    cdLowest,     \* per deletion, the ID switchToLowestOrgId found, 0 before
    cdCalls       \* the gateway calls of the two deletions, in the order they were made

cmpVars == <<cmpDesired, cmpActual, cmpFn, cmpFirst, cmpResult>>
optVars == <<optDesired, optActual, optDefault, optResult>>
usrVars == <<usrSpec, usrActual, grafanaUsers, orgUsers, nextUserID, usrPc, usrStateUsers,
             usrConfigUsers, usrChanges, gUserMap, usrOutput, usrIdx, usrErr, usrCalls>>

pgVars == <<pgFn, pgListing, pgPerpage, pgPage, pgAll, pgRequests, pgErr, pgPc>>

delVars == <<delKind, delStatusID, delOrgs, delActiveOrg, delCurrentOrg, delLowest, delCalls,
             delResult, delPc>>

obsVars == <<obsKind, obsStatus, obsOrgIdIsInt, obsCalls, obsResult, obsPc>>

dsVars == <<dsSpec, dsCrName, dsActual, dsOrgId, dsHeaders, dsResult>>

orgVars == <<orgRemoteID, orgStatusID, orgFirst, orgSecond, orgCreateErr, orgPc>>

dbVars == <<dbSpec, dbRemote, dbStatus, dbResult, dbSubmitted>>

rcVars == <<rcKind, rcName, rcStatus, rcRemote, rcCalls, rcOp, rcResult, rcNext, rcBefore,
            rcPass, rcMark>>

upVars == <<upPc, upObserved, upActual, upResult>>

cdVars == <<cdOrgs, cdActive, cdTarget, cdPc, cdLowest, cdCalls>>

vars == <<cmpVars, optVars, usrVars, pgVars, delVars, obsVars, dsVars, orgVars, dbVars,
          rcVars, upVars, cdVars>>

(***************************************************************************)
(* Semi-structured values, as Go holds them in an interface{}.             *)
(* kind is the dynamic type: "nil", "bool", "int", "int64", "float64",     *)
(* "string", "slice" ([]interface{}) or "map" (map[string]interface{}).    *)
(* num is the number in halves (int 1 is 2, float64 1.5 is 3) or the       *)
(* boolean as 0/1; str the string; a map is its keys, in a canonical       *)
(* order, with the values at the same positions in elems; a slice is its   *)
(* elems.                                                                  *)
(***************************************************************************)
Value(kind, num, str, keys, elems) ==
    [kind |-> kind, num |-> num, str |-> str, keys |-> keys, elems |-> elems]

NilV == Value("nil", 0, "", <<>>, <<>>)
BoolV(b) == Value("bool", IF b THEN 1 ELSE 0, "", <<>>, <<>>)
IntV(halves) == Value("int", halves, "", <<>>, <<>>)
Int64V(halves) == Value("int64", halves, "", <<>>, <<>>)
FloatV(halves) == Value("float64", halves, "", <<>>, <<>>)
StrV(s) == Value("string", 0, s, <<>>, <<>>)
SliceV(elems) == Value("slice", 0, "", <<>>, elems)
MapV(keys, elems) == Value("map", 0, "", keys, elems)

KeySet(m) == {m.keys[i] : i \in 1..Len(m.keys)}
HasKey(m, key) == key \in KeySet(m)
MapGet(m, key) == m.elems[CHOOSE i \in 1..Len(m.keys) : m.keys[i] = key]

(***************************************************************************)
(* reflect.Type.Comparable and reflect.Type.ConvertibleTo on the dynamic   *)
(* types above (the nil interface has no type: see compareComparable).     *)
(***************************************************************************)
Comparable(kind) == kind \in {"bool", "int", "int64", "float64", "string"}

IsInteger(kind) == kind \in {"int", "int64"}

ConvertibleTo(src, dst) ==
    \/ src = dst
    \/ IsInteger(src) /\ (IsInteger(dst) \/ dst \in {"float64", "string"})
    \/ src = "float64" /\ IsInteger(dst)

\* reflect.Value.Convert of v to the type kind: a float64 made an integer
\* loses its fraction (truncation toward zero), every other conversion the
\* comparator reaches keeps the number.
Convert(v, kind) ==
    IF v.kind = "float64" /\ IsInteger(kind)
    THEN [v EXCEPT !.kind = kind,
                   !.num = IF v.num >= 0 THEN (v.num \div 2) * 2
                           ELSE 0 - (((0 - v.num) \div 2) * 2)]
    ELSE [v EXCEPT !.kind = kind]

\* compareComparable without the conversion: only values of one type compare.
compareComparableSameType(desired, actual) ==
    IF desired.kind = "nil" \/ (Comparable(desired.kind) /\ actual.kind = "nil")
    THEN [equal |-> FALSE, ok |-> FALSE, panic |-> TRUE]
    ELSE IF Comparable(desired.kind) /\ desired.kind = actual.kind
    THEN [equal |-> actual = desired, ok |-> TRUE, panic |-> FALSE]
    ELSE [equal |-> FALSE, ok |-> FALSE, panic |-> FALSE]

\* compareComparable(desired, actual) (equal, ok); panic marks a run-time
\* panic: a method call on the nil reflect.Type of a nil interface value, or
\* Convert to a type the actual value cannot be converted to.
compareComparable(desired, actual) ==
    IF desired.kind = "nil"
    THEN [equal |-> FALSE, ok |-> FALSE, panic |-> TRUE]
    ELSE IF ~Comparable(desired.kind)
    THEN [equal |-> FALSE, ok |-> FALSE, panic |-> FALSE]
    ELSE IF actual.kind = "nil"
    THEN [equal |-> FALSE, ok |-> FALSE, panic |-> TRUE]
    ELSE IF ~(Comparable(actual.kind) /\ ConvertibleTo(desired.kind, actual.kind))
    THEN [equal |-> FALSE, ok |-> FALSE, panic |-> FALSE]
    ELSE IF ~ConvertibleTo(actual.kind, desired.kind)
    THEN [equal |-> FALSE, ok |-> FALSE, panic |-> TRUE]
    ELSE [equal |-> Convert(actual, desired.kind) = desired, ok |-> TRUE, panic |-> FALSE]

(***************************************************************************)
(* CompareMap and CompareSlice. Each operator is the set of outcomes the   *)
(* call can have: Go visits the keys of a map in an unspecified order, so  *)
(* the range loop of CompareMap is a choice of the next key among those    *)
(* not yet visited. Outcomes: "true" and "false" with a nil error,         *)
(* "error" (false with an error), "panic".                                 *)
(***************************************************************************)
RECURSIVE CompareMap(_, _), CompareMapRange(_, _, _), CompareMapVisit(_, _, _, _)
RECURSIVE CompareSlice(_, _), CompareSliceFrom(_, _, _)

\* The loop body with a type mismatch under a key reported as an error.
CompareMapVisitShapeError(desired, actual, key, todo) ==
    IF ~HasKey(actual, key) THEN {"false"}
    ELSE LET value == MapGet(desired, key)
             other == MapGet(actual, key)
             c == compareComparable(value, other)
         IN  IF c.panic THEN {"panic"}
             ELSE IF c.ok
             THEN IF ~c.equal THEN {"false"}
                  ELSE CompareMapRange(desired, actual, todo)
             ELSE IF value.kind # other.kind THEN {"error"}
             ELSE IF value.kind = "map" THEN CompareMap(value, other)
             ELSE IF value.kind = "slice" THEN CompareSlice(value, other)
             ELSE {"error"}

\* The body of the range loop of CompareMap for one key; todo holds the keys
\* the loop has not visited yet.
CompareMapVisit(desired, actual, key, todo) ==
    IF ~HasKey(actual, key) THEN {"false"}
    ELSE LET value == MapGet(desired, key)
             other == MapGet(actual, key)
             c == compareComparable(value, other)
         IN  IF c.panic THEN {"panic"}
             ELSE IF c.ok
             THEN IF ~c.equal THEN {"false"}
                  ELSE CompareMapRange(desired, actual, todo)
             ELSE IF value.kind # other.kind THEN {"false"}
             ELSE IF value.kind = "map" THEN CompareMap(value, other)
             ELSE IF value.kind = "slice" THEN CompareSlice(value, other)
             ELSE {"error"}

CompareMapRange(desired, actual, todo) ==
    IF todo = {} THEN {"true"}
    ELSE UNION {CompareMapVisit(desired, actual, key, todo \ {key}) : key \in todo}

CompareMap(desired, actual) ==
    IF Len(desired.keys) # Len(actual.keys) THEN {"false"}
    ELSE CompareMapRange(desired, actual, KeySet(desired))

\* The loop of CompareSlice from index i on.
CompareSliceFrom(desired, actual, i) ==
    IF i > Len(desired.elems) THEN {"true"}
    ELSE LET value == desired.elems[i]
             other == actual.elems[i]
             c == compareComparable(value, other)
         IN  IF c.panic THEN {"panic"}
             ELSE IF c.ok
             THEN IF ~c.equal THEN {"false"}
                  ELSE CompareSliceFrom(desired, actual, i + 1)
             ELSE IF value.kind = "map"
             THEN IF other.kind # "map" THEN {"panic"} ELSE CompareMap(value, other)
             ELSE IF value.kind = "slice"
             THEN IF other.kind # "slice" THEN {"panic"} ELSE CompareSlice(value, other)
             ELSE {"error"}

CompareSlice(desired, actual) ==
    IF Len(desired.elems) # Len(actual.elems) THEN {"false"}
    ELSE CompareSliceFrom(desired, actual, 1)

CompareMapKeys(desired, actual) ==
    IF Len(desired.keys) # Len(actual.keys) THEN FALSE
    ELSE \A key \in KeySet(desired) : HasKey(actual, key)

(***************************************************************************)
(* The comparator calls that are checked: every pair of mappings with at   *)
(* most two of three keys, and every pair of sequences of at most MaxLen   *)
(* elements, over the values below.                                        *)
(***************************************************************************)
MaxLen == 2

NestedMap1 == MapV(<<"a">>, <<FloatV(2)>>)      \* {"a": 1.0}
NestedMap2 == MapV(<<"a">>, <<FloatV(3)>>)      \* {"a": 1.5}
NestedSlice == SliceV(<<FloatV(2)>>)            \* [1.0]

MapValues ==
    {NilV, IntV(2), Int64V(2), FloatV(2), FloatV(3), StrV("x"),
     NestedMap1, NestedMap2, NestedSlice}

SliceValues ==
    {BoolV(TRUE), FloatV(2), FloatV(3), StrV("x"), NestedMap1, NestedSlice}

KeySeqs == {<<>>, <<"a">>, <<"b">>, <<"c">>, <<"a", "b">>, <<"a", "c">>, <<"b", "c">>}

Maps == UNION {{MapV(ks, es) : es \in [1..Len(ks) -> MapValues]} : ks \in KeySeqs}

Slices == UNION {{SliceV(es) : es \in [1..n -> SliceValues]} : n \in 0..MaxLen}

\* No comparator call is modelled in this run.
CompareIdle ==
    /\ cmpDesired = NilV
    /\ cmpActual = NilV
    /\ cmpFn = ""
    /\ cmpFirst = ""
    /\ cmpResult = "idle"

CompareInit ==
    /\ \/ cmpDesired \in Maps /\ cmpActual \in Maps
       \/ cmpDesired \in Slices /\ cmpActual \in Slices
    /\ cmpFn = ""
    /\ cmpFirst = ""
    /\ cmpResult = "pending"

\* CompareMap(cmpDesired, cmpActual); cmpFirst is the key the range loop
\* visited first ("" when the loop body never ran).
DoCompareMap ==
    /\ cmpResult = "pending"
    /\ cmpDesired.kind = "map"
    /\ cmpFn' = "CompareMap"
    /\ \E key \in KeySet(cmpDesired) \cup {""} :
         /\ (key = "") <=> (Len(cmpDesired.keys) # Len(cmpActual.keys) \/ cmpDesired.keys = <<>>)
         /\ cmpFirst' = key
         /\ cmpResult' \in CompareMap(cmpDesired, cmpActual)
         /\ key # "" => cmpResult' \in CompareMapVisit(cmpDesired, cmpActual, key,
                                                        KeySet(cmpDesired) \ {key})
    /\ UNCHANGED <<cmpDesired, cmpActual>>

DoCompareSlice ==
    /\ cmpResult = "pending"
    /\ cmpDesired.kind = "slice"
    /\ cmpFn' = "CompareSlice"
    /\ cmpResult' \in CompareSlice(cmpDesired, cmpActual)
    /\ UNCHANGED <<cmpDesired, cmpActual, cmpFirst>>

DoCompareMapKeys ==
    /\ cmpResult = "pending"
    /\ cmpDesired.kind = "map"
    /\ cmpFn' = "CompareMapKeys"
    /\ cmpResult' = IF CompareMapKeys(cmpDesired, cmpActual) THEN "true" ELSE "false"
    /\ UNCHANGED <<cmpDesired, cmpActual, cmpFirst>>

(***************************************************************************)
(* CompareOptional[K comparable](desired *K, actual K, defaultValue K).    *)
(* The pointer is [present |-> FALSE] for nil.                             *)
(***************************************************************************)
\* CompareOptional that also accepts the default when desired is present.
CompareOptionalOrDefault(desired, actual, defaultValue) ==
    \/ actual = defaultValue
    \/ desired.present /\ actual = desired.val

CompareOptional(desired, actual, defaultValue) ==
    LET expected == IF ~desired.present THEN defaultValue ELSE desired.val
    IN  actual = expected

OptStrings == {"", "Test", "Test1", "default"}

OptPointers ==
    {[present |-> FALSE, val |-> ""]} \cup {[present |-> TRUE, val |-> s] : s \in OptStrings}

OptionalIdle ==
    /\ optDesired = [present |-> FALSE, val |-> ""]
    /\ optActual = ""
    /\ optDefault = ""
    /\ optResult = "idle"

OptionalInit ==
    /\ optDesired \in OptPointers
    /\ optActual \in OptStrings
    /\ optDefault \in OptStrings
    /\ optResult = "pending"

DoCompareOptional ==
    /\ optResult = "pending"
    /\ optResult' = IF CompareOptional(optDesired, optActual, optDefault) THEN "true" ELSE "false"
    /\ UNCHANGED <<optDesired, optActual, optDefault>>

(***************************************************************************)
(* Organization membership: mapUsers, userChanges, addUserIdsToChanges and *)
(* updateUsers of the organization controller.                             *)
(***************************************************************************)
RoleSet == {"Admin", "Editor", "Viewer", "None"}

OrgUser(email, role) == [ID |-> 0, Email |-> email, Role |-> role]

UserChange(type, user) == [Type |-> type, User |-> user]

\* m[key] = value of a Go map.
Put(m, key, value) ==
    [k \in DOMAIN m \cup {key} |-> IF k = key THEN value ELSE m[k]]

\* One loop of mapUsers: users[*email] = OrgUser{Email: *email, Role: role}.
RECURSIVE PutUsers(_, _, _)
PutUsers(users, emails, role) ==
    IF emails = <<>> THEN users
    ELSE PutUsers(Put(users, Head(emails), OrgUser(Head(emails), role)), Tail(emails), role)

mapUsers(p) ==
    PutUsers(PutUsers(PutUsers(PutUsers(<<>>, p.Admins, "Admin"),
                               p.Editors, "Editor"),
                      p.Viewers, "Viewer"),
             p.UsersWithoutAccess, "None")

\* The body of the first loop of userChanges emitting an Update for every
\* user found in the state, whatever its role.
ConfigUserChangeAlwaysUpdate(stateUsers, user) ==
    IF user.Email \notin DOMAIN stateUsers
    THEN <<UserChange("Add", user)>>
    ELSE <<UserChange("Update", user)>>

\* The body of the first loop of userChanges, for one configured user.
ConfigUserChange(stateUsers, user) ==
    IF user.Email \notin DOMAIN stateUsers
    THEN <<UserChange("Add", user)>>
    ELSE IF stateUsers[user.Email].Role # user.Role
    THEN <<UserChange("Update", user)>>
    ELSE <<>>

\* The body of the second loop of userChanges, for one user of the state.
StateUserChange(configUsers, user) ==
    IF user.Email \notin DOMAIN configUsers
    THEN <<UserChange("Remove", user)>>
    ELSE <<>>

\* The orders in which a range loop can visit the keys of a Go map.
Orders(keys) ==
    {o \in [1..Cardinality(keys) -> keys] : \A i, j \in DOMAIN o : i # j => o[i] # o[j]}

RECURSIVE ConfigLoop(_, _, _), StateLoop(_, _, _)
ConfigLoop(stateUsers, configUsers, order) ==
    IF order = <<>> THEN <<>>
    ELSE ConfigUserChange(stateUsers, configUsers[Head(order)])
             \o ConfigLoop(stateUsers, configUsers, Tail(order))

StateLoop(stateUsers, configUsers, order) ==
    IF order = <<>> THEN <<>>
    ELSE StateUserChange(configUsers, stateUsers[Head(order)])
             \o StateLoop(stateUsers, configUsers, Tail(order))

\* userChanges with its two loops exchanged: the Removes come first.
userChangesRemovesFirst(stateUsers, configUsers) ==
    {StateLoop(stateUsers, configUsers, so) \o ConfigLoop(stateUsers, configUsers, co) :
        co \in Orders(DOMAIN configUsers), so \in Orders(DOMAIN stateUsers)}

\* userChanges(stateUsers, configUsers): the slices it can return, one for
\* every order in which the two range loops can visit the maps.
userChanges(stateUsers, configUsers) ==
    {ConfigLoop(stateUsers, configUsers, co) \o StateLoop(stateUsers, configUsers, so) :
        co \in Orders(DOMAIN configUsers), so \in Orders(DOMAIN stateUsers)}

\* create in addUserIdsToChanges, were CreateUsers never read.
CreateAlways(d) == TRUE

\* create in addUserIdsToChanges: true unless CreateUsers is set to false.
CreateEnabled(d) == IF d.CreateUsers # "nil" THEN d.CreateUsers = "true" ELSE TRUE

\* What addUserIdsToChanges does with one change, with the Remove of a user
\* the directory does not list treated like every other change.
ResolveKindNoSkip(change, userMap, create) ==
    IF change.User.Email \in DOMAIN userMap THEN "found"
    ELSE IF ~create THEN "missing"
    ELSE "create"

\* What addUserIdsToChanges does with one change: "found" (the directory
\* lists the email), "skip" (a Remove of a user that no longer exists),
\* "missing" (error, the user does not exist), "create" (createUser).
ResolveKind(change, userMap, create) ==
    IF change.User.Email \in DOMAIN userMap THEN "found"
    ELSE IF change.Type = "Remove" THEN "skip"
    ELSE IF ~create THEN "missing"
    ELSE "create"

\* The change as it came, with no ID written into it.
WithoutID(change, id) == change

\* change.User.ID = id
WithID(change, id) == [change EXCEPT !.User.ID = id]

NoError == [kind |-> "none", email |-> ""]
ErrorOf(kind, email) == [kind |-> kind, email |-> email]

Call(op, email, id, role, resp) ==
    [op |-> op, email |-> email, id |-> id, role |-> role, resp |-> resp]

\* The position after a change was handled, were a change applied as soon as
\* its identity is resolved.
AfterResolveEager(idx, output) ==
    IF output # <<>> THEN "apply"
    ELSE IF idx <= Len(usrChanges) THEN "resolve"
    ELSE "done"

\* The position after addUserIdsToChanges handled the change before index
\* idx: its loop goes on, or updateUsers starts (or skips) its own loop.
AfterResolve(idx, output) ==
    IF idx <= Len(usrChanges) THEN "resolve"
    ELSE IF output = <<>> THEN "done"
    ELSE "apply"

\* The loop index at that position: the loop of updateUsers starts anew.
IndexAfterResolve(idx, output) ==
    IF AfterResolve(idx, output) = "apply" THEN 1 ELSE idx

\* updateUsers up to the call of addUserIdsToChanges: the changes between the
\* observed and the desired users.
UpdateUsersStart ==
    /\ usrPc = "start"
    /\ usrStateUsers' = mapUsers(usrActual)
    /\ usrConfigUsers' = mapUsers(usrSpec)
    /\ usrChanges' \in userChanges(mapUsers(usrActual), mapUsers(usrSpec))
    /\ usrPc' = "list"
    /\ UNCHANGED <<usrSpec, usrActual, grafanaUsers, orgUsers, nextUserID, gUserMap,
                   usrOutput, usrIdx, usrErr, usrCalls>>

\* addUserIdsToChanges: the directory listing of getAllUsers, which the
\* gateway answers or fails.
GetAllUsers ==
    /\ usrPc = "list"
    /\ \E resp \in {"ok", "fail"} :
         /\ usrCalls' = Append(usrCalls, Call("SearchUsers", "", 0, "", resp))
         /\ IF resp = "ok"
            THEN /\ gUserMap' = grafanaUsers
                 /\ usrIdx' = 1
                 /\ usrPc' = AfterResolve(1, <<>>)
                 /\ usrErr' = usrErr
            ELSE /\ usrErr' = ErrorOf("listing", "")
                 /\ usrPc' = "done"
                 /\ UNCHANGED <<gUserMap, usrIdx>>
    /\ UNCHANGED <<usrSpec, usrActual, grafanaUsers, orgUsers, nextUserID, usrStateUsers,
                   usrConfigUsers, usrChanges, usrOutput>>

\* One round of the loop of addUserIdsToChanges.
ResolveChange ==
    /\ usrPc = "resolve"
    /\ LET change == usrChanges[usrIdx]
           kind == ResolveKind(change, gUserMap, CreateEnabled(usrSpec))
       IN  \/ /\ kind = "found"
              /\ usrOutput' = Append(usrOutput, WithID(change, gUserMap[change.User.Email]))
              /\ usrIdx' = IndexAfterResolve(usrIdx + 1, usrOutput')
              /\ usrPc' = AfterResolve(usrIdx + 1, usrOutput')
              /\ UNCHANGED <<grafanaUsers, nextUserID, usrErr, usrCalls>>
           \/ /\ kind = "skip"
              /\ usrIdx' = IndexAfterResolve(usrIdx + 1, usrOutput)
              /\ usrPc' = AfterResolve(usrIdx + 1, usrOutput)
              /\ UNCHANGED <<grafanaUsers, nextUserID, usrOutput, usrErr, usrCalls>>
           \/ /\ kind = "missing"
              /\ usrErr' = ErrorOf("missing", change.User.Email)
              /\ usrPc' = "done"
              /\ UNCHANGED <<grafanaUsers, nextUserID, usrOutput, usrIdx, usrCalls>>
           \/ /\ kind = "create"
              /\ \E resp \in {"ok", "fail"} :
                   /\ usrCalls' = Append(usrCalls,
                         Call("AdminCreateUser", change.User.Email,
                              IF resp = "ok" THEN nextUserID ELSE 0, "", resp))
                   /\ IF resp = "ok"
                      THEN /\ grafanaUsers' = Put(grafanaUsers, change.User.Email, nextUserID)
                           /\ nextUserID' = nextUserID + 1
                           /\ usrOutput' = Append(usrOutput, WithID(change, nextUserID))
                           /\ usrIdx' = IndexAfterResolve(usrIdx + 1, usrOutput')
                           /\ usrPc' = AfterResolve(usrIdx + 1, usrOutput')
                           /\ usrErr' = usrErr
                      ELSE /\ usrErr' = ErrorOf("create", change.User.Email)
                           /\ usrPc' = "done"
                           /\ UNCHANGED <<grafanaUsers, nextUserID, usrOutput, usrIdx>>
    /\ UNCHANGED <<usrSpec, usrActual, orgUsers, usrStateUsers, usrConfigUsers, usrChanges,
                   gUserMap>>

\* The members of the organization after the gateway carried out a change.
Applied(members, change) ==
    IF change.Type = "Remove"
    THEN [e \in DOMAIN members \ {change.User.Email} |-> members[e]]
    ELSE Put(members, change.User.Email, change.User.Role)

OpOf(type) ==
    IF type = "Add" THEN "AddOrgUser"
    ELSE IF type = "Update" THEN "UpdateOrgUser"
    ELSE "RemoveOrgUser"

\* The answers of the gateway to AddOrgUser, UpdateOrgUser and RemoveOrgUser:
\* success; status 409, whose error text holds "409"; a failure whose error
\* text does not hold "409"; a failure that is no conflict and whose error
\* text holds "409" all the same (the text of a transport error quotes the
\* URL, /orgs/3/users/409 for the user with ID 409).
ChangeResponses == {"ok", "conflict", "fail", "fail409"}

\* err != nil
IsFailure(resp) == resp # "ok"

\* The condition of the loop of updateUsers with no exemption for a conflict.
ReturnsErrorOnEveryFailure(resp) == IsFailure(resp)

\* err != nil && !strings.Contains(err.Error(), "409"): the loop of
\* updateUsers returns the error.
ReturnsError(resp) == IsFailure(resp) /\ resp \notin {"conflict", "fail409"}

\* One round of the loop of updateUsers: the gateway call of one change and
\* the test of its error.
ApplyChange ==
    /\ usrPc = "apply"
    /\ LET change == usrOutput[usrIdx]
       IN  \E resp \in ChangeResponses :
             /\ usrCalls' = Append(usrCalls,
                   Call(OpOf(change.Type), change.User.Email, change.User.ID,
                        IF change.Type = "Remove" THEN "" ELSE change.User.Role, resp))
             /\ orgUsers' = IF resp = "ok" THEN Applied(orgUsers, change) ELSE orgUsers
             /\ IF ReturnsError(resp)
                THEN /\ usrErr' = ErrorOf("gateway", change.User.Email)
                     /\ usrPc' = "done"
                     /\ usrIdx' = usrIdx
                ELSE /\ usrErr' = usrErr
                     /\ usrIdx' = usrIdx + 1
                     /\ usrPc' = IF usrIdx + 1 > Len(usrOutput) THEN "done" ELSE "apply"
    /\ UNCHANGED <<usrSpec, usrActual, grafanaUsers, nextUserID, usrStateUsers,
                   usrConfigUsers, usrChanges, gUserMap, usrOutput>>

(***************************************************************************)
(* The organizations that are checked: role lists that name at most        *)
(* MaxUsers emails in all.                                                 *)
(***************************************************************************)
MaxUsers == 2

\* Two spellings of one address and another address; two plain addresses.
DeltaEmails == {"a@x.com", "A@x.com", "b@x.com"}
PassEmails == {"u1@x.com", "u2@x.com"}

\* The order in which GetOrgUsers lists the members.
EmailOrder == <<"A@x.com", "a@x.com", "b@x.com", "u1@x.com", "u2@x.com">>

\* strings.ToLower on the addresses above.
ToLower(email) == IF email = "A@x.com" THEN "a@x.com" ELSE email

\* The ID of a user the directory holds from the start.
UserID(email) == CHOOSE i \in 1..Len(EmailOrder) : EmailOrder[i] = email

\* The emails of one role among (role, email) entries, in their order.
EmailsOf(entries, role) ==
    LET sel == SelectSeq(entries, LAMBDA x : x[1] = role)
    IN  [i \in 1..Len(sel) |-> sel[i][2]]

\* The desired parameters over the given addresses.
SpecParameters(emails, flags) ==
    {[Admins |-> EmailsOf(entries, "Admin"),
      Editors |-> EmailsOf(entries, "Editor"),
      Viewers |-> EmailsOf(entries, "Viewer"),
      UsersWithoutAccess |-> EmailsOf(entries, "None"),
      CreateUsers |-> cu] :
        entries \in UNION {[1..n -> RoleSet \X emails] : n \in 0..MaxUsers}, cu \in flags}

\* The memberships of an organization over the given addresses: Grafana
\* holds one spelling of an address.
Memberships(emails) ==
    {m \in UNION {[s -> RoleSet] : s \in SUBSET emails} :
        \A e1, e2 \in DOMAIN m : ToLower(e1) = ToLower(e2) => e1 = e2}

\* The role lists observeActualParameters builds from the members GetOrgUsers
\* returned.
ActualParameters(members) ==
    LET RoleList(role) ==
            SelectSeq(EmailOrder, LAMBDA e : e \in DOMAIN members /\ members[e] = role)
    IN  [Admins |-> RoleList("Admin"), Editors |-> RoleList("Editor"),
         Viewers |-> RoleList("Viewer"), UsersWithoutAccess |-> RoleList("None"),
         CreateUsers |-> "nil"]

\* No call of updateUsers is modelled in this run.
UsersIdle ==
    /\ usrSpec = ActualParameters(<<>>)
    /\ usrActual = ActualParameters(<<>>)
    /\ grafanaUsers = <<>>
    /\ orgUsers = <<>>
    /\ nextUserID = Len(EmailOrder) + 1
    /\ usrPc = "idle"
    /\ usrStateUsers = <<>>
    /\ usrConfigUsers = <<>>
    /\ usrChanges = <<>>
    /\ gUserMap = <<>>
    /\ usrOutput = <<>>
    /\ usrIdx = 0
    /\ usrErr = NoError
    /\ usrCalls = <<>>

\* updateUsers is called with the members observed in Grafana; every member
\* observed is a user of the directory.
DeltaInit ==
    /\ usrSpec \in SpecParameters(DeltaEmails, {"nil"})
    /\ \E members \in Memberships(DeltaEmails) :
         /\ usrActual = ActualParameters(members)
         /\ orgUsers = members
         /\ grafanaUsers = [e \in DOMAIN members |-> UserID(e)]
    /\ nextUserID = Len(EmailOrder) + 1
    /\ usrPc = "start"
    /\ usrStateUsers = <<>>
    /\ usrConfigUsers = <<>>
    /\ usrChanges = <<>>
    /\ gUserMap = <<>>
    /\ usrOutput = <<>>
    /\ usrIdx = 0
    /\ usrErr = NoError
    /\ usrCalls = <<>>

\* updateUsers is called with the members observed in Grafana, some of whom
\* may have been deleted from the directory (and so from the organization)
\* since they were observed.
UsersInit ==
    /\ usrSpec \in SpecParameters(PassEmails, {"nil", "true", "false"})
    /\ \E members \in Memberships(PassEmails), directory \in SUBSET PassEmails :
         /\ usrActual = ActualParameters(members)
         /\ orgUsers = [e \in DOMAIN members \cap directory |-> members[e]]
         /\ grafanaUsers = [e \in directory |-> UserID(e)]
    /\ nextUserID = Len(EmailOrder) + 1
    /\ usrPc = "start"
    /\ usrStateUsers = <<>>
    /\ usrConfigUsers = <<>>
    /\ usrChanges = <<>>
    /\ gUserMap = <<>>
    /\ usrOutput = <<>>
    /\ usrIdx = 0
    /\ usrErr = NoError
    /\ usrCalls = <<>>


(***************************************************************************)
(* The paginated listings: GetAllUsers and GetAllOrgs of GrafanaAPI, and   *)
(* getAllUsers and getAllOrgs of the organization controller.              *)
(***************************************************************************)
\* The listings with a page counter that starts at 0, and those with one
\* that starts at 1.
ListingsFromZero == {"GetAllUsers", "GetAllOrgs"}
ListingsFromOne == {"getAllUsers", "getAllOrgs"}

\* var page int64 = 0 (GrafanaAPI), var page int64 = 1 (organization
\* controller).
FirstPage(fn) == IF fn \in ListingsFromZero THEN 0 ELSE 1

\* The answer of SearchUsers and SearchOrgs to a page request: the gateway
\* numbers its pages from the number the listing function starts at and
\* returns the elements of that page, perpage of them unless the listing ends.
SearchPayload(listing, first, page, perpage) ==
    LET from == (page - first) * perpage + 1
        to == IF from + perpage - 1 < Len(listing) THEN from + perpage - 1 ELSE Len(listing)
    IN  IF page < first THEN <<>> ELSE SubSeq(listing, from, to)

\* The loop ends when the page is empty.
LastPageWhenEmpty(payload, perpage) == Len(payload) = 0

\* len(resp.Payload) != int(*params.Perpage): the loop ends.
LastPage(payload, perpage) == Len(payload) # perpage

\* One round of the loop of a listing function: the page request, which the
\* gateway answers or fails, the append and the test for the last page.
SearchNextPage ==
    /\ pgPc = "loop"
    /\ pgRequests' = Append(pgRequests, pgPage)
    /\ \E resp \in {"ok", "fail"} :
         IF resp = "fail"
         THEN /\ pgAll' = <<>>
              /\ pgErr' = TRUE
              /\ pgPc' = "done"
              /\ pgPage' = pgPage
         ELSE LET payload == SearchPayload(pgListing, FirstPage(pgFn), pgPage, pgPerpage)
              IN  /\ pgAll' = pgAll \o payload
                  /\ pgErr' = pgErr
                  /\ IF LastPage(payload, pgPerpage)
                     THEN pgPc' = "done" /\ pgPage' = pgPage
                     ELSE pgPc' = "loop" /\ pgPage' = pgPage + 1
    /\ UNCHANGED <<pgFn, pgListing, pgPerpage>>

\* The listings that are checked hold at most MaxElems elements and the page
\* size is at most MaxPerpage (the gateway's default is 1000).
MaxElems == 5
MaxPerpage == 2

\* No listing is modelled in this run.
PagesIdle ==
    /\ pgFn = ""
    /\ pgListing = <<>>
    /\ pgPerpage = 1
    /\ pgPage = 0
    /\ pgAll = <<>>
    /\ pgRequests = <<>>
    /\ pgErr = FALSE
    /\ pgPc = "idle"

\* A listing function is called: the gateway holds N elements, numbered in
\* the order it lists them.
PagesInit ==
    /\ pgFn \in ListingsFromZero \cup ListingsFromOne
    /\ \E n \in 0..MaxElems : pgListing = [i \in 1..n |-> i]
    /\ pgPerpage \in 1..MaxPerpage
    /\ pgPage = FirstPage(pgFn)
    /\ pgAll = <<>>
    /\ pgRequests = <<>>
    /\ pgErr = FALSE
    /\ pgPc = "loop"

(***************************************************************************)
(* Delete of the four controllers.                                         *)
(***************************************************************************)
\* The resource kinds whose Delete reads the identity of the Status Record
\* through its pointer: Status.AtProvider.ID of a DataSource,
\* Status.AtProvider.UID of a Folder and of a Dashboard.
SimpleKinds == {"datasource", "folder", "dashboard"}

DeleteOp(kind) ==
    IF kind = "datasource" THEN "DeleteDataSource"
    ELSE IF kind = "folder" THEN "DeleteFolder"
    ELSE "DeleteDashboard"

\* A gateway call of Delete: the operation, its argument, the active
\* organization of the signed-in user when the call is made, the answer.
DeleteCall(op, arg, active, resp) ==
    [op |-> op, arg |-> arg, active |-> active, resp |-> resp]

\* orgId = 9999999 and the loop of switchToLowestOrgId: the lowest ID among
\* the organizations listed.
LowestOrgId(orgs) ==
    IF orgs = {} THEN 9999999
    ELSE CHOOSE o \in orgs : \A q \in orgs : o <= q

\* Delete of a DataSource, a Folder or a Dashboard: the identity is read
\* through the pointer of the Status Record, which panics when it is nil, and
\* the gateway deletes by it.
ResourceDelete(kind) ==
    /\ delPc = "start"
    /\ delKind = kind
    /\ IF delStatusID = 0
       THEN /\ delResult' = "panic"
            /\ delCalls' = delCalls
       ELSE \E resp \in {"ok", "fail"} :
              /\ delCalls' = Append(delCalls, DeleteCall(DeleteOp(kind), delStatusID, 0, resp))
              /\ delResult' = IF resp = "ok" THEN "nil" ELSE "error"
    /\ delPc' = "done"
    /\ UNCHANGED <<delKind, delStatusID, delOrgs, delActiveOrg, delCurrentOrg, delLowest>>

DataSourceDelete == ResourceDelete("datasource")

FolderDelete == ResourceDelete("folder")

DashboardDelete == ResourceDelete("dashboard")

\* Delete of an Organization, up to the answer of GetSignedInUser.
OrganizationDelete ==
    /\ delPc = "start"
    /\ delKind = "organization"
    /\ IF delStatusID = 0
       THEN /\ delResult' = "nil"
            /\ delPc' = "done"
            /\ UNCHANGED <<delCalls, delCurrentOrg>>
       ELSE \E resp \in {"ok", "fail"} :
              /\ delCalls' = Append(delCalls,
                                    DeleteCall("GetSignedInUser", 0, delActiveOrg, resp))
              /\ IF resp = "fail"
                 THEN /\ delResult' = "error"
                      /\ delPc' = "done"
                      /\ delCurrentOrg' = delCurrentOrg
                 ELSE /\ delResult' = delResult
                      /\ delCurrentOrg' = delActiveOrg
                      /\ delPc' = IF delActiveOrg = delStatusID THEN "switch" ELSE "delete"
    /\ UNCHANGED <<delKind, delStatusID, delOrgs, delActiveOrg, delLowest>>

\* switchToLowestOrgId up to its call of UserSetUsingOrg: the listing of
\* getAllOrgs and the search for the lowest ID.
switchToLowestOrgId ==
    /\ delPc = "switch"
    /\ \E resp \in {"ok", "fail"} :
         /\ delCalls' = Append(delCalls, DeleteCall("SearchOrgs", 0, delActiveOrg, resp))
         /\ IF resp = "fail"
            THEN /\ delResult' = "error"
                 /\ delPc' = "done"
                 /\ delLowest' = delLowest
            ELSE /\ delResult' = delResult
                 /\ delLowest' = LowestOrgId(delOrgs)
                 /\ delPc' = "set"
    /\ UNCHANGED <<delKind, delStatusID, delOrgs, delActiveOrg, delCurrentOrg>>

\* The call of UserSetUsingOrg that ends switchToLowestOrgId: the gateway
\* makes an organization that exists the active one, or fails.
UserSetUsingOrg ==
    /\ delPc = "set"
    /\ \E resp \in IF delLowest \in delOrgs THEN {"ok", "fail"} ELSE {"fail"} :
         /\ delCalls' = Append(delCalls,
                               DeleteCall("UserSetUsingOrg", delLowest, delActiveOrg, resp))
         /\ IF resp = "fail"
            THEN /\ delResult' = "error"
                 /\ delPc' = "done"
                 /\ delActiveOrg' = delActiveOrg
            ELSE /\ delResult' = delResult
                 /\ delActiveOrg' = delLowest
                 /\ delPc' = "delete"
    /\ UNCHANGED <<delKind, delStatusID, delOrgs, delCurrentOrg, delLowest>>

\* The call of DeleteOrgByID that ends Delete of an Organization.
DeleteOrgByID ==
    /\ delPc = "delete"
    /\ \E resp \in {"ok", "fail"} :
         /\ delCalls' = Append(delCalls,
                               DeleteCall("DeleteOrgByID", delStatusID, delActiveOrg, resp))
         /\ delOrgs' = IF resp = "ok" THEN delOrgs \ {delStatusID} ELSE delOrgs
         /\ delResult' = IF resp = "ok" THEN "nil" ELSE "error"
    /\ delPc' = "done"
    /\ UNCHANGED <<delKind, delStatusID, delActiveOrg, delCurrentOrg, delLowest>>

\* The gateways that are checked hold organizations with IDs up to MaxOrgs.
MaxOrgs == 3

\* No Delete is modelled in this run.
DeleteIdle ==
    /\ delKind = ""
    /\ delStatusID = 0
    /\ delOrgs = {}
    /\ delActiveOrg = 0
    /\ delCurrentOrg = 0
    /\ delLowest = 0
    /\ delCalls = <<>>
    /\ delResult = "pending"
    /\ delPc = "idle"

\* Delete is called on a resource whose Status Record holds an identity or
\* none (0); the signed-in user's active organization is one that exists.
DeleteInit ==
    /\ delKind \in SimpleKinds \cup {"organization"}
    /\ delOrgs \in SUBSET (1..MaxOrgs)
    /\ delOrgs # {}
    /\ delActiveOrg \in delOrgs
    /\ delStatusID \in IF delKind = "organization" THEN {0} \cup delOrgs ELSE {0, 1}
    /\ delCurrentOrg = 0
    /\ delLowest = 0
    /\ delCalls = <<>>
    /\ delResult = "pending"
    /\ delPc = "start"

(***************************************************************************)
(* The fetch of Observe in the four controllers.                           *)
(***************************************************************************)
\* ignoreStatusCodesOnObserve: http.StatusForbidden, http.StatusNotFound.
ignoreStatusCodesOnObserve == {403, 404}

\* The statuses the gateway answers a fetch with: found, and five errors.
StatusCodes == {200, 400, 401, 403, 404, 500}

\* orNilOnStatus, were no status ignored: every error is returned.
orNilOnNoStatus(code, status) == IF code # 200 THEN "error" ELSE "payload"

\* orNilOnStatus on the answer of the gateway: "nil" for (nil, nil), "error"
\* for (nil, err), "payload" for the payload of the response.
orNilOnStatus(code, status) ==
    IF code # 200 /\ code \in status THEN "nil"
    ELSE IF code # 200 THEN "error"
    ELSE "payload"

\* orNilOnNotFound, and isCode(err, 404) in observeActualParameters.
orNilOnNotFound(code) == orNilOnStatus(code, {404})

\* What Observe can return for what the fetch returned: ResourceExists=false
\* with no error, an error, or ResourceExists=true with the verdict of
\* isUpToDate.
ObservationsOf(fetched) ==
    IF fetched = "nil" THEN {"absent"}
    ELSE IF fetched = "error" THEN {"error"}
    ELSE {"upToDate", "notUpToDate"}

\* The identity fields of the Status Record after Observe: copyToStatus sets
\* them from the resource found.
StatusAfter(status, observation) ==
    IF observation \in {"upToDate", "notUpToDate"}
    THEN [UID |-> TRUE, ID |-> TRUE]
    ELSE status

ObserveCall(op, code) == [op |-> op, code |-> code]

\* The gateway call GetDataSource, GetFolder and GetDashboard make first for
\* the identity the Status Record holds: a fetch by the recorded identifier,
\* or by the declared name.
FirstFetch(kind, status) ==
    IF kind = "datasource"
    THEN IF status.ID THEN "GetDataSourceById" ELSE "GetDataSourceByName"
    ELSE IF kind = "folder"
    THEN IF status.UID THEN "GetFolderByUid"
         ELSE IF status.ID THEN "GetFolderById"
         ELSE "Search"
    ELSE IF status.UID THEN "GetDashboardByUid" ELSE "Search"

\* GetFolderByUid and GetDashboardByUid on the first match of the search.
FetchOfMatch(kind) == IF kind = "folder" THEN "GetFolderByUid" ELSE "GetDashboardByUid"

\* Observe of a DataSource, a Folder or a Dashboard up to the answer of its
\* first gateway call: strconv.ParseInt of the organization ID, then the
\* fetch through orNilOnStatus, or the search of GetFolderByName and
\* GetDashboardByName, which returns every error and nil for no match.
ObserveFetch ==
    /\ obsPc = "start"
    /\ obsKind \in SimpleKinds
    /\ IF ~obsOrgIdIsInt
       THEN /\ obsResult' = "error"
            /\ obsPc' = "done"
            /\ obsCalls' = obsCalls
       ELSE LET op == FirstFetch(obsKind, obsStatus)
            IN  \E code \in StatusCodes, matches \in 0..2 :
                  /\ op # "Search" => matches = 1
                  /\ code # 200 => matches = 1
                  /\ obsCalls' = Append(obsCalls, ObserveCall(op, code))
                  /\ IF op # "Search"
                     THEN /\ obsResult' \in ObservationsOf(
                                               orNilOnStatus(code, ignoreStatusCodesOnObserve))
                          /\ obsPc' = "done"
                     ELSE IF code # 200
                     THEN obsResult' = "error" /\ obsPc' = "done"
                     ELSE IF matches = 0
                     THEN obsResult' = "absent" /\ obsPc' = "done"
                     ELSE obsResult' = obsResult /\ obsPc' = "match"
    /\ obsStatus' = StatusAfter(obsStatus, obsResult')
    /\ UNCHANGED <<obsKind, obsOrgIdIsInt>>

\* GetFolderByName and GetDashboardByName after the search: the fetch of the
\* first match by its UID.
ObserveFetchMatch ==
    /\ obsPc = "match"
    /\ \E code \in StatusCodes :
         /\ obsCalls' = Append(obsCalls, ObserveCall(FetchOfMatch(obsKind), code))
         /\ obsResult' \in ObservationsOf(orNilOnStatus(code, ignoreStatusCodesOnObserve))
    /\ obsPc' = "done"
    /\ obsStatus' = StatusAfter(obsStatus, obsResult')
    /\ UNCHANGED <<obsKind, obsOrgIdIsInt>>

\* observeActualParameters up to the answer of GetOrgByName; the
\* organization found, its ID is written to the Status Record.
observeActualParameters ==
    /\ obsPc = "start"
    /\ obsKind = "organization"
    /\ \E code \in StatusCodes :
         /\ obsCalls' = Append(obsCalls, ObserveCall("GetOrgByName", code))
         /\ IF orNilOnNotFound(code) = "payload"
            THEN /\ obsResult' = obsResult
                 /\ obsStatus' = [obsStatus EXCEPT !.ID = TRUE]
                 /\ obsPc' = "users"
            ELSE /\ obsResult' \in ObservationsOf(orNilOnNotFound(code))
                 /\ obsStatus' = obsStatus
                 /\ obsPc' = "done"
    /\ UNCHANGED <<obsKind, obsOrgIdIsInt>>

\* observeActualParameters from its call of GetOrgUsers, whose every error
\* is returned.
GetOrgUsers ==
    /\ obsPc = "users"
    /\ \E code \in StatusCodes :
         /\ obsCalls' = Append(obsCalls, ObserveCall("GetOrgUsers", code))
         /\ obsResult' \in IF code # 200 THEN {"error"} ELSE {"upToDate", "notUpToDate"}
    /\ obsPc' = "done"
    /\ UNCHANGED <<obsKind, obsStatus, obsOrgIdIsInt>>

\* The identity fields a Status Record can hold.
StatusRecords(kind) ==
    IF kind = "folder" THEN [UID : BOOLEAN, ID : BOOLEAN]
    ELSE IF kind = "dashboard" THEN [UID : BOOLEAN, ID : {FALSE}]
    ELSE IF kind = "datasource" THEN [UID : {FALSE}, ID : BOOLEAN]
    ELSE [UID : {FALSE}, ID : BOOLEAN]

\* No Observe is modelled in this run.
ObserveIdle ==
    /\ obsKind = ""
    /\ obsStatus = [UID |-> FALSE, ID |-> FALSE]
    /\ obsOrgIdIsInt = TRUE
    /\ obsCalls = <<>>
    /\ obsResult = "pending"
    /\ obsPc = "idle"

\* Observe is called on a resource of one of the four kinds.
ObserveInit ==
    /\ obsKind \in SimpleKinds \cup {"organization"}
    /\ obsStatus \in StatusRecords(obsKind)
    /\ obsOrgIdIsInt \in IF obsKind = "organization" THEN {TRUE} ELSE BOOLEAN
    /\ obsCalls = <<>>
    /\ obsResult = "pending"
    /\ obsPc = "start"

(***************************************************************************)
(* isUpToDate of the datasource controller, with the helpers of its        *)
(* package: jsonDataWithHeaders, compareMap, compareMapKeys.               *)
(***************************************************************************)
\* A pointer of the desired parameters: nil, or a value.
NilPtr == [present |-> FALSE, val |-> ""]
Ptr(v) == [present |-> TRUE, val |-> v]

\* jsonData[key] = value on a mapping.
MapPut(m, key, value) ==
    IF HasKey(m, key)
    THEN MapV(m.keys, [i \in 1..Len(m.keys) |-> IF m.keys[i] = key THEN value ELSE m.elems[i]])
    ELSE MapV(Append(m.keys, key), Append(m.elems, value))

\* fmt.Sprintf("httpHeaderName%d", idx) and fmt.Sprintf("httpHeaderValue%d", idx)
HeaderNameKey(idx) == IF idx = 1 THEN "httpHeaderName1" ELSE "httpHeaderName2"
HeaderValueKey(idx) == IF idx = 1 THEN "httpHeaderValue1" ELSE "httpHeaderValue2"

\* The loop of jsonDataWithHeaders over the headers in one order.
RECURSIVE WithHeadersFrom(_, _, _, _, _)
WithHeadersFrom(jsonData, secureJSONData, headers, order, idx) ==
    IF idx > Len(order) THEN [jsonData |-> jsonData, secureJSONData |-> secureJSONData]
    ELSE WithHeadersFrom(MapPut(jsonData, HeaderNameKey(idx), StrV(order[idx])),
                         Put(secureJSONData, HeaderValueKey(idx), headers[order[idx]]),
                         headers, order, idx + 1)

\* jsonDataWithHeaders: the pairs (jsonData, secureJSONData) it can return,
\* one for every order in which the range loop can visit the headers.
jsonDataWithHeaders(inputJSONData, inputSecureJSONData, headers) ==
    {WithHeadersFrom(inputJSONData, inputSecureJSONData, headers, order, 1) :
        order \in Orders(DOMAIN headers)}

\* compareMap of the datasource package: the outcomes "true", "false" and
\* "panic" it can have. The loop returns false at the first key that differs
\* and panics at the first key whose values are not comparable and not both
\* mappings (the type assertions value.(map[string]interface{})), whichever
\* the range loop visits first.
RECURSIVE compareMap(_, _), compareMapVisit(_, _, _)
compareMapVisit(desired, actual, key) ==
    IF ~HasKey(actual, key) THEN {"false"}
    ELSE LET value == MapGet(desired, key)
             other == MapGet(actual, key)
             c == compareComparable(value, other)
         IN  IF c.panic THEN {"panic"}
             ELSE IF c.ok THEN (IF c.equal THEN {"true"} ELSE {"false"})
             ELSE IF value.kind # "map" \/ other.kind # "map" THEN {"panic"}
             ELSE compareMap(value, other)

compareMap(desired, actual) ==
    IF Len(desired.keys) # Len(actual.keys) THEN {"false"}
    ELSE (IF \A key \in KeySet(desired) : "true" \in compareMapVisit(desired, actual, key)
          THEN {"true"} ELSE {})
         \cup UNION {compareMapVisit(desired, actual, key) \ {"true"} : key \in KeySet(desired)}

\* compareMapKeys on the keys of the desired secure data and of the
\* SecureJSONFields of the remote.
compareMapKeys(desired, actual) ==
    IF Cardinality(desired) # Cardinality(actual) THEN FALSE
    ELSE \A key \in desired : key \in actual

\* The conjunction of isUpToDate over the fields it compares with == and
\* compareOptional, in its order.
ScalarsUpToDate(spec, crName, atGrafana, orgId) ==
    LET name == IF ~spec.Name.present THEN crName ELSE spec.Name.val
    IN  /\ name = atGrafana.Name
        /\ spec.Type.val = atGrafana.Type
        /\ CompareOptional(spec.AccessMode, atGrafana.Access, "proxy")
        /\ CompareOptional(spec.BasicAuthEnabled, atGrafana.BasicAuth, "false")
        /\ CompareOptional(spec.BasicAuthUsername, atGrafana.BasicAuthUser, "")
        /\ CompareOptional(spec.DatabaseName, atGrafana.Database, "")
        /\ CompareOptional(spec.IsDefault, atGrafana.IsDefault, "false")
        /\ (~spec.UID.present \/ spec.UID.val = atGrafana.UID)
        /\ CompareOptional(spec.URL, atGrafana.URL, "")
        /\ CompareOptional(spec.Username, atGrafana.User, "")
        /\ orgId = atGrafana.OrgID

\* isUpToDate: the outcomes it can have, "true" and "false" with a nil
\* error, "error" (the payload of the parameters does not parse), "panic".
\* && evaluates its right side, so *spec.Type, compareMap and
\* compareMapKeys, only while the verdict is true.
isUpToDate(spec, crName, atGrafana, orgId, headers) ==
    IF ~spec.JSONDataParses THEN {"error"}
    ELSE IF (IF ~spec.Name.present THEN crName ELSE spec.Name.val) # atGrafana.Name
    THEN {"false"}
    ELSE IF ~spec.Type.present THEN {"panic"}
    ELSE IF ~ScalarsUpToDate(spec, crName, atGrafana, orgId) THEN {"false"}
    ELSE UNION {
            LET payload == compareMap(d.jsonData, atGrafana.JSONData)
                keys == compareMapKeys(DOMAIN d.secureJSONData, atGrafana.SecureJSONFields)
            IN  (payload \ {"true"})
                    \cup (IF "true" \in payload
                          THEN {IF keys THEN "true" ELSE "false"} ELSE {}) :
            d \in jsonDataWithHeaders(spec.JSONData, spec.SecureJSONData, headers)}

\* Observe of a DataSource from its call of isUpToDate.
DoIsUpToDate ==
    /\ dsResult = "pending"
    /\ dsResult' \in isUpToDate(dsSpec, dsCrName, dsActual, dsOrgId, dsHeaders)
    /\ UNCHANGED <<dsSpec, dsCrName, dsActual, dsOrgId, dsHeaders>>

\* The parameters and the remote of TestIsUpToDate, without payload, secure
\* data and headers.
BaseParameters ==
    [Name |-> NilPtr, Type |-> Ptr("prometheus"), AccessMode |-> NilPtr,
     BasicAuthEnabled |-> NilPtr, BasicAuthUsername |-> Ptr("admin"),
     DatabaseName |-> NilPtr, IsDefault |-> Ptr("true"), UID |-> NilPtr,
     URL |-> NilPtr, Username |-> NilPtr,
     JSONData |-> MapV(<<>>, <<>>), JSONDataParses |-> TRUE, SecureJSONData |-> <<>>]

BaseDataSource ==
    [Name |-> "", Type |-> "prometheus", Access |-> "proxy", BasicAuth |-> "false",
     BasicAuthUser |-> "admin", Database |-> "", IsDefault |-> "true", UID |-> "",
     URL |-> "", User |-> "", OrgID |-> 1,
     JSONData |-> MapV(<<>>, <<>>), SecureJSONFields |-> {}]

\* The parameters isUpToDate compares with a field of the remote, and that
\* field.
ScalarFields ==
    {"Name", "Type", "AccessMode", "BasicAuthEnabled", "BasicAuthUsername",
     "DatabaseName", "IsDefault", "UID", "URL", "Username"}

RemoteField(f) ==
    IF f = "AccessMode" THEN "Access"
    ELSE IF f = "BasicAuthEnabled" THEN "BasicAuth"
    ELSE IF f = "BasicAuthUsername" THEN "BasicAuthUser"
    ELSE IF f = "DatabaseName" THEN "Database"
    ELSE IF f = "Username" THEN "User"
    ELSE f

\* The values a field is given.
FieldValues(f) ==
    IF f \in {"BasicAuthEnabled", "IsDefault"} THEN {"false", "true"}
    ELSE IF f = "AccessMode" THEN {"proxy", "direct"}
    ELSE IF f = "Type" THEN {"prometheus", "loki"}
    ELSE {"", "admin", "admin2"}

\* The pointers a parameter is given; the type is a required parameter.
FieldPointers(f) ==
    (IF f = "Type" THEN {} ELSE {NilPtr}) \cup {Ptr(v) : v \in FieldValues(f)}

\* The payloads: what json.Unmarshal makes of the declared payload and what
\* the gateway returns.
Payloads ==
    {MapV(<<>>, <<>>),
     MapV(<<"a">>, <<FloatV(2)>>), MapV(<<"a">>, <<FloatV(3)>>),
     MapV(<<"a">>, <<StrV("x")>>), MapV(<<"a">>, <<NilV>>),
     MapV(<<"a">>, <<NestedSlice>>), MapV(<<"a">>, <<NestedMap1>>),
     MapV(<<"a">>, <<NestedMap2>>),
     MapV(<<"a", "b">>, <<NestedMap1, StrV("x")>>)}

HeaderMaps == UNION {[h -> {"v", "w"}] : h \in SUBSET {"Test", "Test2"}}

SecureMaps == UNION {[k -> {"v", "w"}] : k \in SUBSET {"secret"}}

\* No call of isUpToDate is modelled in this run.
UpToDateIdle ==
    /\ dsSpec = BaseParameters
    /\ dsCrName = ""
    /\ dsActual = BaseDataSource
    /\ dsOrgId = 1
    /\ dsHeaders = <<>>
    /\ dsResult = "idle"

\* isUpToDate is called with parameters and a remote that are those of
\* TestIsUpToDate but for one field and its counterpart, or but for the
\* payload, the secure data and the headers; the remote holds the header
\* names and secure keys an earlier Create or Update sent it.
UpToDateInit ==
    /\ dsCrName = ""
    /\ dsResult = "pending"
    /\ \/ /\ \E f \in ScalarFields, p \in Payloads :
               /\ dsSpec \in {[BaseParameters EXCEPT ![f] = v, !.JSONData = p] :
                                 v \in FieldPointers(f)}
               /\ dsActual \in {[BaseDataSource EXCEPT ![RemoteField(f)] = v, !.JSONData = p] :
                                   v \in FieldValues(f)}
          /\ dsOrgId \in {1, 2}
          /\ dsHeaders = <<>>
       \/ /\ dsOrgId = 1
          /\ dsHeaders \in HeaderMaps
          /\ \E p \in Payloads, parses \in BOOLEAN, sjd \in SecureMaps :
               dsSpec = [BaseParameters EXCEPT !.JSONData = p, !.JSONDataParses = parses,
                                               !.SecureJSONData = sjd]
          /\ \E p \in Payloads, sent \in HeaderMaps, sjd \in SecureMaps :
               \E d \in jsonDataWithHeaders(p, sjd, sent) :
                   dsActual = [BaseDataSource EXCEPT !.JSONData = d.jsonData,
                                  !.SecureJSONFields = DOMAIN d.secureJSONData]

(***************************************************************************)
(* Observe and Create of the organization controller.                      *)
(***************************************************************************)
\* usersEqualIgnoreOrder(a, b)
usersEqualIgnoreOrder(a, b) ==
    IF Len(a) # Len(b) THEN FALSE
    ELSE \A i \in 1..Len(a) : \E j \in 1..Len(b) : a[i] = b[j]

\* upToDate of Observe, were the role lists never equal.
OrganizationNeverUpToDate(spec, actual) == FALSE

\* upToDate of Observe: the name, by which the organization was fetched, and
\* the four role lists.
OrganizationUpToDate(spec, actual) ==
    /\ usersEqualIgnoreOrder(spec.Admins, actual.Admins)
    /\ usersEqualIgnoreOrder(spec.Editors, actual.Editors)
    /\ usersEqualIgnoreOrder(spec.Viewers, actual.Viewers)
    /\ usersEqualIgnoreOrder(spec.UsersWithoutAccess, actual.UsersWithoutAccess)

\* Observe of an Organization: GetOrgByName, which finds no organization of
\* the name (404) or fails otherwise, then GetOrgUsers and the comparison of
\* the role lists. The first Observe of the run reports to orgFirst, the one
\* after Create to orgSecond.
OrganizationObserve ==
    /\ orgPc \in {"observe", "observeAgain"}
    /\ \E resp \in {"ok", "fail"} :
         LET observation ==
                 IF resp = "fail" THEN "error"
                 ELSE IF orgRemoteID = 0 THEN "absent"
                 ELSE IF OrganizationUpToDate(usrSpec, ActualParameters(orgUsers))
                 THEN "upToDate"
                 ELSE "notUpToDate"
         IN  /\ orgStatusID' = IF observation \in {"upToDate", "notUpToDate"}
                               THEN orgRemoteID ELSE orgStatusID
             /\ IF orgPc = "observe"
                THEN /\ orgFirst' = observation
                     /\ orgSecond' = orgSecond
                     /\ orgPc' = IF observation = "absent" THEN "create" ELSE "done"
                ELSE /\ orgSecond' = observation
                     /\ orgFirst' = orgFirst
                     /\ orgPc' = "done"
    /\ UNCHANGED <<orgRemoteID, orgCreateErr, usrVars>>

\* Create of an Organization up to its call of updateUsers: CreateOrg, which
\* the gateway answers with the ID of the new organization or fails; then
\* updateUsers is entered with no observed member.
OrganizationCreate ==
    /\ orgPc = "create"
    /\ \E resp \in {"ok", "fail"} :
         IF resp = "fail"
         THEN /\ orgCreateErr' = TRUE
              /\ orgPc' = "done"
              /\ UNCHANGED <<orgRemoteID, orgStatusID, usrVars>>
         ELSE /\ orgRemoteID' = 1
              /\ orgStatusID' = 1
              /\ orgCreateErr' = orgCreateErr
              /\ orgPc' = "users"
              /\ usrActual' = ActualParameters(<<>>)
              /\ usrPc' = "start"
              /\ UNCHANGED <<usrSpec, grafanaUsers, orgUsers, nextUserID, usrStateUsers,
                             usrConfigUsers, usrChanges, gUserMap, usrOutput, usrIdx,
                             usrErr, usrCalls>>
    /\ UNCHANGED <<orgFirst, orgSecond>>

\* The return of Create: errors.Wrap of what updateUsers returned.
OrganizationCreateReturn ==
    /\ orgPc = "users"
    /\ usrPc = "done"
    /\ orgCreateErr' = (usrErr # NoError)
    /\ orgPc' = "observeAgain"
    /\ UNCHANGED <<orgRemoteID, orgStatusID, orgFirst, orgSecond, usrVars>>

\* No Observe or Create of an Organization is modelled in this run.
OrganizationIdle ==
    /\ orgRemoteID = 0
    /\ orgStatusID = 0
    /\ orgFirst = "pending"
    /\ orgSecond = "pending"
    /\ orgCreateErr = FALSE
    /\ orgPc = "idle"

\* An Organization is declared whose name the gateway holds no organization
\* of; its Status Record is empty.
OrganizationInit ==
    /\ orgRemoteID = 0
    /\ orgStatusID = 0
    /\ orgFirst = "pending"
    /\ orgSecond = "pending"
    /\ orgCreateErr = FALSE
    /\ orgPc = "observe"
    /\ usrSpec \in SpecParameters(PassEmails, {"nil", "true", "false"})
    /\ usrActual = ActualParameters(<<>>)
    /\ \E directory \in SUBSET PassEmails : grafanaUsers = [e \in directory |-> UserID(e)]
    /\ orgUsers = <<>>
    /\ nextUserID = Len(EmailOrder) + 1
    /\ usrPc = "idle"
    /\ usrStateUsers = <<>>
    /\ usrConfigUsers = <<>>
    /\ usrChanges = <<>>
    /\ gUserMap = <<>>
    /\ usrOutput = <<>>
    /\ usrIdx = 0
    /\ usrErr = NoError
    /\ usrCalls = <<>>

(***************************************************************************)
(* Observe of the dashboard controller with its isUpToDate.                *)
(***************************************************************************)
\* isUpToDate of the dashboard controller: the declared folder against the
\* folder of the remote and, once the Status Record holds a UID, the declared
\* configuration against the configuration the Status Record holds.
dashboardIsUpToDate(spec, atGrafana, status) ==
    /\ CompareOptional(spec.Folder, atGrafana.FolderUID, "")
    /\ status.UID =>
         /\ status.ConfigJSON.present
         /\ CompareOptional(spec.ConfigJSON, status.ConfigJSON.val, "")

\* The Status Record after isUpToDate and copyToStatusFromMeta: with no UID
\* yet the declared configuration is recorded; the UID is set.
DashboardStatusAfter(spec, status) ==
    [UID |-> TRUE,
     ConfigJSON |-> IF status.UID THEN status.ConfigJSON ELSE spec.ConfigJSON]

\* The declared folders and configurations, the remote dashboards and the
\* Status Records that are checked: a Status Record holds no UID (with or
\* without the configuration Create recorded) or the UID and configuration
\* an earlier Observe or Update recorded.
DashboardFolders == {"f1", "f2"}
DashboardConfigs == {"A", "B"}
DashboardSpecs ==
    [Folder : {NilPtr} \cup {Ptr(f) : f \in DashboardFolders},
     ConfigJSON : {NilPtr} \cup {Ptr(c) : c \in DashboardConfigs}]
DashboardRemotes == [FolderUID : {""} \cup DashboardFolders, Config : DashboardConfigs]
DashboardStatuses ==
    [UID : {FALSE}, ConfigJSON : {NilPtr} \cup {Ptr(c) : c \in DashboardConfigs}]
        \cup [UID : {TRUE}, ConfigJSON : {Ptr(c) : c \in DashboardConfigs}]

\* Observe of a Dashboard: GetDashboard, which fails for a declared
\* configuration with no title when the Status Record holds no UID, then
\* isUpToDate and copyToStatusFromMeta on the dashboard found.
DashboardObserve ==
    /\ dbResult = "pending"
    /\ IF ~dbStatus.UID /\ ~dbSpec.ConfigJSON.present
       THEN dbResult' = "error" /\ dbStatus' = dbStatus
       ELSE \E fetched \in {"payload", "nil", "error"} :
              IF fetched = "payload"
              THEN /\ dbResult' = IF dashboardIsUpToDate(dbSpec, dbRemote, dbStatus)
                                  THEN "upToDate" ELSE "notUpToDate"
                   /\ dbStatus' = DashboardStatusAfter(dbSpec, dbStatus)
              ELSE /\ dbResult' = IF fetched = "nil" THEN "absent" ELSE "error"
                   /\ dbStatus' = dbStatus
    /\ UNCHANGED <<dbSpec, dbRemote, dbSubmitted>>

\* The dashboards the gateway can hold after it accepted the declared
\* configuration: setFolderId passes the declared folder on only when it is a
\* UUID or a number, so the folder is any.
DashboardSaved(spec) == {r \in DashboardRemotes : r.Config = spec.ConfigJSON.val}

\* Create of a Dashboard, after Observe reported it absent: the declared
\* configuration is submitted and, when the gateway accepts it, recorded in
\* the Status Record; the response is dropped. A declared configuration of
\* nil is parsed to no dashboard, which the gateway rejects.
DashboardCreate ==
    /\ dbResult = "absent"
    /\ \E accepted \in (IF dbSpec.ConfigJSON.present THEN BOOLEAN ELSE {FALSE}) :
         IF accepted
         THEN /\ dbStatus' = [dbStatus EXCEPT !.ConfigJSON = dbSpec.ConfigJSON]
              /\ dbRemote' \in DashboardSaved(dbSpec)
              /\ dbSubmitted' = dbSubmitted \cup {dbSpec.ConfigJSON}
         ELSE UNCHANGED <<dbStatus, dbRemote, dbSubmitted>>
    /\ dbResult' = "pending"
    /\ UNCHANGED dbSpec

\* Update of a Dashboard, after Observe reported it not up to date: the
\* declared configuration is submitted with the identity of the Status
\* Record and, when the gateway accepts it, recorded with the answer. A
\* declared configuration of nil is parsed to a nil map, and the write of
\* "id" to it panics.
DashboardUpdate ==
    /\ dbResult = "notUpToDate"
    /\ IF ~dbSpec.ConfigJSON.present
       THEN dbResult' = "panic" /\ UNCHANGED <<dbStatus, dbRemote, dbSubmitted>>
       ELSE /\ dbResult' = "pending"
            /\ \E accepted \in BOOLEAN :
                 IF accepted
                 THEN /\ dbStatus' = [UID |-> TRUE, ConfigJSON |-> dbSpec.ConfigJSON]
                      /\ dbRemote' \in DashboardSaved(dbSpec)
                      /\ dbSubmitted' = dbSubmitted \cup {dbSpec.ConfigJSON}
                 ELSE UNCHANGED <<dbStatus, dbRemote, dbSubmitted>>
    /\ UNCHANGED dbSpec

\* The declared specification of a Dashboard that was reported up to date
\* is edited; the next pass observes it.
DashboardEdit ==
    /\ dbResult = "upToDate"
    /\ dbSpec' \in DashboardSpecs \ {dbSpec}
    /\ dbResult' = "pending"
    /\ UNCHANGED <<dbStatus, dbRemote, dbSubmitted>>

\* No Observe of a Dashboard is modelled in this run.
DashboardIdle ==
    /\ dbSpec = [Folder |-> NilPtr, ConfigJSON |-> NilPtr]
    /\ dbRemote = [FolderUID |-> "", Config |-> "A"]
    /\ dbStatus = [UID |-> FALSE, ConfigJSON |-> NilPtr]
    /\ dbResult = "idle"
    /\ dbSubmitted = {}

\* Observe is called on a Dashboard.
DashboardInit ==
    /\ dbSpec \in DashboardSpecs
    /\ dbRemote \in DashboardRemotes
    /\ dbStatus \in DashboardStatuses
    /\ dbResult = "pending"
    /\ dbSubmitted \in (IF dbStatus.ConfigJSON.present
                        THEN {{}, {dbStatus.ConfigJSON}} ELSE {{}})

(***************************************************************************)
(* The reconcile passes of the four controllers on one resource: Observe,  *)
(* then Create when it reports the resource absent, Update when it reports *)
(* it not up to date. The identity of the Status Record is one number: the *)
(* organization ID, the datasource ID, the folder UID or the dashboard UID *)
(* (0 for nil). The gateway holds the resources of the kind by identity,   *)
(* each with its name (title), "" where there is none.                     *)
(***************************************************************************)
Kinds == SimpleKinds \cup {"organization"}
Names == {"X", "Y"}

EmptyStatus == [ID |-> 0, Name |-> ""]

\* A gateway call of a handler: by identity (id) or by name, and the status
\* code of the answer; a create call holds the identity the gateway gave.
RcCall(op, id, name, code) == [op |-> op, id |-> id, name |-> name, code |-> code]

\* The mark the gateway keeps for an identity whose resource was deleted:
\* the identity is not given again.
Gone == "-"

Exists(remote, id) == id \in DOMAIN remote /\ remote[id] \notin {"", Gone}

\* The identity of the resource of that name, 0 when there is none.
IdOfName(remote, name) ==
    IF \E i \in DOMAIN remote : remote[i] = name
    THEN CHOOSE i \in DOMAIN remote : remote[i] = name
    ELSE 0

\* The lowest identity the gateway has not given, 0 when there is none left.
FreeId(remote) ==
    IF \E i \in DOMAIN remote : remote[i] = ""
    THEN CHOOSE i \in DOMAIN remote :
             remote[i] = "" /\ \A j \in DOMAIN remote : remote[j] = "" => i <= j
    ELSE 0

\* The answers of the gateway: the true one (200, or 404 for a resource that
\* does not exist, or 409 for a name that is taken), forbidden, or a failure.
FetchCodes(exists) == (IF exists THEN {200} ELSE {404}) \cup {403, 500}
SearchCodes == {200, 500}
WriteCodes(accepted, refusal) == (IF accepted THEN {200} ELSE {refusal}) \cup {500}

\* The early returns of Observe, which leave the Status Record as it is, were
\* they to empty it.
StatusCleared(status) == EmptyStatus

\* The Status Record after a return of Observe before copyToStatus.
StatusWhenAbsent(status) == status

\* GetDataSource, GetFolder and GetDashboard: the calls made, what was
\* fetched and the identity of the resource fetched.
Resolved(calls, fetched, id) == [calls |-> calls, fetched |-> fetched, id |-> id]

FetchById(op, id, remote) ==
    {Resolved(<<RcCall(op, id, "", code)>>,
              orNilOnStatus(code, ignoreStatusCodesOnObserve), id) :
        code \in FetchCodes(Exists(remote, id))}

FetchByName(kind, name, remote) ==
    LET match == IdOfName(remote, name)
    IN  IF kind = "datasource"
        THEN {Resolved(<<RcCall("GetDataSourceByName", 0, name, code)>>,
                       orNilOnStatus(code, ignoreStatusCodesOnObserve), match) :
                 code \in FetchCodes(match # 0)}
        ELSE {Resolved(<<RcCall("Search", 0, name, 500)>>, "error", 0)}
             \cup (IF match = 0
                   THEN {Resolved(<<RcCall("Search", 0, name, 200)>>, "nil", 0)}
                   ELSE {Resolved(<<RcCall("Search", 0, name, 200)>> \o r.calls, r.fetched, match) :
                            r \in FetchById(FetchOfMatch(kind), match, remote)})

Resolve(kind, status, name, remote) ==
    IF status.ID # 0
    THEN FetchById(FirstFetch(kind, [UID |-> TRUE, ID |-> TRUE]), status.ID, remote)
    ELSE FetchByName(kind, name, remote)

\* The verdicts isUpToDate can return: the folder controller compares the
\* title only, the datasource controller the name and other fields, the
\* dashboard controller no name.
Verdicts(kind, name, remoteName) ==
    IF kind = "folder" THEN {IF name = remoteName THEN "upToDate" ELSE "notUpToDate"}
    ELSE IF kind = "datasource" /\ name # remoteName THEN {"notUpToDate"}
    ELSE {"upToDate", "notUpToDate"}

\* copyToStatus: the identity of the resource and, but for a Dashboard, its
\* name.
copyToStatus(kind, status, id, remoteName) ==
    [ID |-> id, Name |-> IF kind = "dashboard" THEN status.Name ELSE remoteName]

\* What a handler leaves: the Status Record, the resources of the gateway,
\* the calls it made and its result.
Outcome(status, remote, calls, result) ==
    [status |-> status, remote |-> remote, calls |-> calls, result |-> result]

\* observeActualParameters: GetOrgByName for the declared name, the identity
\* written to the Status Record, then GetOrgUsers. The result is "found",
\* "nil" or "error".
observeActualParametersOutcomes(status, name, remote) ==
    LET match == IdOfName(remote, name)
        written == [ID |-> match, Name |-> name]
    IN  UNION {
          LET byName == <<RcCall("GetOrgByName", 0, name, code)>>
          IN  IF orNilOnNotFound(code) = "nil"
              THEN {Outcome(status, remote, byName, "nil")}
              ELSE IF orNilOnNotFound(code) = "error"
              THEN {Outcome(status, remote, byName, "error")}
              ELSE {Outcome(written, remote,
                            Append(byName, RcCall("GetOrgUsers", match, "", ucode)),
                            IF ucode = 200 THEN "found" ELSE "error") :
                       ucode \in SearchCodes} :
          code \in FetchCodes(match # 0)}

\* Observe of the four controllers.
ObserveOutcomes(kind, status, name, remote) ==
    IF kind = "organization"
    THEN UNION {
           IF a.result = "nil" THEN {Outcome(StatusWhenAbsent(a.status), remote, a.calls, "absent")}
           ELSE IF a.result = "error" THEN {a}
           ELSE {Outcome(a.status, remote, a.calls, v) : v \in {"upToDate", "notUpToDate"}} :
           a \in observeActualParametersOutcomes(status, name, remote)}
    ELSE UNION {
           IF r.fetched = "nil" THEN {Outcome(StatusWhenAbsent(status), remote, r.calls, "absent")}
           ELSE IF r.fetched = "error" THEN {Outcome(status, remote, r.calls, "error")}
           ELSE {Outcome(copyToStatus(kind, status, r.id, remote[r.id]), remote, r.calls, v) :
                    v \in Verdicts(kind, name, remote[r.id])} :
           r \in Resolve(kind, status, name, remote)}

CreateOp(kind) ==
    IF kind = "organization" THEN "CreateOrg"
    ELSE IF kind = "datasource" THEN "CreateDataSource"
    ELSE IF kind = "folder" THEN "CreateFolder"
    ELSE "CreateOrUpdateDashboard"

\* Create of the four controllers: the gateway creates the resource under a
\* new identity unless the name is taken. The organization controller writes
\* the identity and calls updateUsers; the datasource controller calls
\* copyToStatus on the response before it looks at the error; the folder and
\* dashboard controllers drop the response.
CreateOutcomes(kind, status, name, remote) ==
    LET new == FreeId(remote)
        accepted == IdOfName(remote, name) = 0 /\ new # 0
        created == [remote EXCEPT ![new] = name]
    IN  UNION {
          IF code # 200
          THEN {Outcome(status, remote, <<RcCall(CreateOp(kind), 0, name, code)>>,
                        IF kind = "datasource" THEN "panic" ELSE "error")}
          ELSE LET call == <<RcCall(CreateOp(kind), new, name, 200)>>
               IN  IF kind = "organization"
                   THEN {Outcome([status EXCEPT !.ID = new], created,
                                 Append(call, RcCall("updateUsers", new, "", ucode)),
                                 IF ucode = 200 THEN "ok" ELSE "error") :
                            ucode \in SearchCodes}
                   ELSE IF kind = "datasource"
                   THEN {Outcome(copyToStatus(kind, status, new, name), created, call, "ok")}
                   ELSE {Outcome(status, created, call, "ok")} :
          code \in WriteCodes(accepted, 409)}

UpdateOp(kind) ==
    IF kind = "datasource" THEN "UpdateDataSource"
    ELSE IF kind = "folder" THEN "UpdateFolder"
    ELSE "CreateOrUpdateDashboard"

\* Update of the four controllers, called after an Observe that found the
\* resource and so wrote its identity. The organization controller fetches
\* again by the declared name and compares the name it declared with the name
\* of what it fetched; the datasource controller compares the declared name
\* with the name of the Status Record; the folder and dashboard controllers
\* send the declared title to the resource of the recorded UID.
UpdateOutcomes(kind, status, name, remote) ==
    IF kind = "organization"
    THEN UNION {
           IF a.result = "nil" THEN {Outcome(a.status, remote, a.calls, "notFound")}
           ELSE IF a.result = "error" THEN {a}
           ELSE IF remote[a.status.ID] # name
           THEN {Outcome(a.status, remote, a.calls, "nameChanged")}
           ELSE {Outcome(a.status, remote, a.calls, "ok")}
                \cup {Outcome(a.status, remote,
                              Append(a.calls, RcCall("updateUsers", a.status.ID, "", ucode)),
                              IF ucode = 200 THEN "ok" ELSE "error") :
                         ucode \in SearchCodes} :
           a \in observeActualParametersOutcomes(status, name, remote)}
    ELSE IF kind = "datasource" /\ name # status.Name
    THEN {Outcome(status, remote, <<>>, "nameChanged")}
    ELSE LET accepted == Exists(remote, status.ID) /\ IdOfName(remote, name) \in {0, status.ID}
             refusal == IF Exists(remote, status.ID) THEN 409 ELSE 404
         IN  {IF code = 200
              THEN Outcome(copyToStatus(kind, status, status.ID, name),
                           [remote EXCEPT ![status.ID] = name],
                           <<RcCall(UpdateOp(kind), status.ID, name, 200)>>, "ok")
              ELSE Outcome(status, remote,
                           <<RcCall(UpdateOp(kind), status.ID, name, code)>>, "error") :
                 code \in WriteCodes(accepted, refusal)}

\* The handler the reconciler calls after Observe returned.
AfterObserve(result) ==
    IF result = "absent" THEN "Create"
    ELSE IF result = "notUpToDate" THEN "Update"
    ELSE "Observe"

\* The gateway is checked with MaxRemote identities to give.
MaxRemote == 2

\* Observe: a pass starts.
Observe ==
    /\ rcNext = "Observe"
    /\ \E o \in ObserveOutcomes(rcKind, rcStatus, rcName, rcRemote) :
         /\ rcStatus' = o.status
         /\ rcCalls' = o.calls
         /\ rcResult' = o.result
         /\ rcNext' = AfterObserve(o.result)
    /\ rcOp' = "Observe"
    /\ rcBefore' = rcStatus
    /\ rcPass' = rcStatus
    /\ rcMark' = 0
    /\ UNCHANGED <<rcKind, rcName, rcRemote>>

\* Create, after an Observe that reported the resource absent.
Create ==
    /\ rcNext = "Create"
    /\ \E o \in CreateOutcomes(rcKind, rcStatus, rcName, rcRemote) :
         /\ rcStatus' = o.status
         /\ rcRemote' = o.remote
         /\ rcCalls' = rcCalls \o o.calls
         /\ rcResult' = o.result
    /\ rcOp' = "Create"
    /\ rcNext' = "Observe"
    /\ rcBefore' = rcStatus
    /\ rcMark' = Len(rcCalls)
    /\ UNCHANGED <<rcKind, rcName, rcPass>>

\* Update, after an Observe that reported the resource not up to date.
Update ==
    /\ rcNext = "Update"
    /\ \E o \in UpdateOutcomes(rcKind, rcStatus, rcName, rcRemote) :
         /\ rcStatus' = o.status
         /\ rcRemote' = o.remote
         /\ rcCalls' = rcCalls \o o.calls
         /\ rcResult' = o.result
    /\ rcOp' = "Update"
    /\ rcNext' = "Observe"
    /\ rcBefore' = rcStatus
    /\ rcMark' = Len(rcCalls)
    /\ UNCHANGED <<rcKind, rcName, rcPass>>

\* Between two passes the declared name is changed.
ChangeName ==
    /\ rcNext = "Observe"
    /\ rcOp # "none"
    /\ rcName' \in Names \ {rcName}
    /\ rcOp' = "none"
    /\ rcResult' = "none"
    /\ rcCalls' = <<>>
    /\ rcBefore' = rcStatus
    /\ rcPass' = rcStatus
    /\ rcMark' = 0
    /\ UNCHANGED <<rcKind, rcStatus, rcRemote, rcNext>>

\* Someone else deletes the resource whose identity the Status Record holds,
\* after a pass that found it.
DeletedOutOfBand ==
    /\ rcNext = "Observe"
    /\ rcOp \in {"Observe", "Update"}
    /\ rcResult \in {"upToDate", "ok"}
    /\ Exists(rcRemote, rcStatus.ID)
    /\ rcRemote' = [rcRemote EXCEPT ![rcStatus.ID] = Gone]
    /\ rcOp' = "none"
    /\ rcResult' = "none"
    /\ rcCalls' = <<>>
    /\ rcBefore' = rcStatus
    /\ rcPass' = rcStatus
    /\ rcMark' = 0
    /\ UNCHANGED <<rcKind, rcName, rcStatus, rcNext>>

\* The resources a gateway can hold: no two of one name.
Remotes ==
    {r \in [1..MaxRemote -> Names \cup {""}] :
        \A i, j \in 1..MaxRemote : (i # j /\ r[i] # "") => r[i] # r[j]}

\* No reconcile pass is modelled in this run.
ReconcileIdle ==
    /\ rcKind = ""
    /\ rcName = ""
    /\ rcStatus = EmptyStatus
    /\ rcRemote = <<>>
    /\ rcCalls = <<>>
    /\ rcOp = "none"
    /\ rcResult = "none"
    /\ rcNext = "idle"
    /\ rcBefore = EmptyStatus
    /\ rcPass = EmptyStatus
    /\ rcMark = 0

\* A resource is declared: its Status Record is empty.
ReconcileInit ==
    /\ rcKind \in Kinds
    /\ rcName \in Names
    /\ rcStatus = EmptyStatus
    /\ rcRemote \in Remotes
    /\ rcCalls = <<>>
    /\ rcOp = "none"
    /\ rcResult = "none"
    /\ rcNext = "Observe"
    /\ rcBefore = EmptyStatus
    /\ rcPass = EmptyStatus
    /\ rcMark = 0

(***************************************************************************)
(* The passes of the organization controller on an organization that       *)
(* exists: Observe, and Update when Observe reports it not up to date.     *)
(***************************************************************************)
\* Observe of an Organization the gateway holds: observeActualParameters,
\* which the gateway answers or fails, and the comparison of the role lists.
PassObserve ==
    /\ upPc = "observe"
    /\ \E resp \in {"ok", "fail"} :
         IF resp = "fail"
         THEN /\ upObserved' = "error"
              /\ upActual' = upActual
              /\ upPc' = "observe"
         ELSE /\ upActual' = ActualParameters(orgUsers)
              /\ upObserved' = IF OrganizationUpToDate(usrSpec, ActualParameters(orgUsers))
                               THEN "upToDate" ELSE "notUpToDate"
              /\ upPc' = IF OrganizationUpToDate(usrSpec, ActualParameters(orgUsers))
                         THEN "observe" ELSE "update"
    /\ UNCHANGED <<upResult, usrVars>>

\* Update of an Organization up to the call of updateUsers: a fetch of its
\* own through observeActualParameters, the comparison of the role lists
\* with what it fetched, and updateUsers when they differ.
OrganizationUpdate ==
    /\ upPc = "update"
    /\ \E resp \in {"ok", "fail"} :
         IF resp = "fail"
         THEN /\ upResult' = "fetchError"
              /\ upPc' = "observe"
              /\ UNCHANGED usrVars
         ELSE /\ usrActual' = ActualParameters(orgUsers)
              /\ usrStateUsers' = <<>>
              /\ usrConfigUsers' = <<>>
              /\ usrChanges' = <<>>
              /\ gUserMap' = <<>>
              /\ usrOutput' = <<>>
              /\ usrIdx' = 0
              /\ usrErr' = NoError
              /\ usrCalls' = <<>>
              /\ UNCHANGED <<usrSpec, grafanaUsers, orgUsers, nextUserID>>
              /\ IF OrganizationUpToDate(usrSpec, ActualParameters(orgUsers))
                 THEN /\ upResult' = "ok"
                      /\ upPc' = "observe"
                      /\ usrPc' = "idle"
                 ELSE /\ upResult' = "pending"
                      /\ upPc' = "users"
                      /\ usrPc' = "start"
    /\ UNCHANGED <<upObserved, upActual>>

\* The return of Update: the error of updateUsers.
OrganizationUpdateReturn ==
    /\ upPc = "users"
    /\ usrPc = "done"
    /\ upResult' = IF usrErr = NoError THEN "ok" ELSE "error"
    /\ upPc' = "observe"
    /\ UNCHANGED <<upObserved, upActual, usrVars>>

\* The roles of the organizations the passes are checked on.
PassRoles == {"Admin", "Viewer"}

\* The members such an organization can have.
PassMemberships == {m \in Memberships(PassEmails) : \A e \in DOMAIN m : m[e] \in PassRoles}

\* Between Observe and Update someone else changes the members of the
\* organization.
OutsideChange ==
    /\ upPc = "update"
    /\ orgUsers' \in PassMemberships \ {orgUsers}
    /\ UNCHANGED <<upPc, upObserved, upActual, upResult, usrSpec, usrActual, grafanaUsers,
                   nextUserID, usrPc, usrStateUsers, usrConfigUsers, usrChanges, gUserMap,
                   usrOutput, usrIdx, usrErr, usrCalls>>

\* No pass on an Organization is modelled in this run.
PassesIdle ==
    /\ upPc = "idle"
    /\ upObserved = "pending"
    /\ upActual = ActualParameters(<<>>)
    /\ upResult = "none"

\* An Organization the gateway holds is declared with its lists of
\* administrators and viewers; every address is a user of the directory.
PassesInit ==
    /\ upPc = "observe"
    /\ upObserved = "pending"
    /\ upActual = ActualParameters(<<>>)
    /\ upResult = "none"
    /\ usrSpec \in {p \in SpecParameters(PassEmails, {"nil"}) :
                       p.Editors = <<>> /\ p.UsersWithoutAccess = <<>>}
    /\ usrActual = ActualParameters(<<>>)
    /\ grafanaUsers = [e \in PassEmails |-> UserID(e)]
    /\ orgUsers \in PassMemberships
    /\ nextUserID = Len(EmailOrder) + 1
    /\ usrPc = "idle"
    /\ usrStateUsers = <<>>
    /\ usrConfigUsers = <<>>
    /\ usrChanges = <<>>
    /\ gUserMap = <<>>
    /\ usrOutput = <<>>
    /\ usrIdx = 0
    /\ usrErr = NoError
    /\ usrCalls = <<>>

(***************************************************************************)
(* Two Delete calls on two Organizations, run at once by one provider with *)
(* one account: each gateway call is one step.                             *)
(***************************************************************************)
Deleters == {1, 2}

\* A gateway call and the deletion that made it.
DeleterCall(p, op, arg, active, resp) ==
    [by |-> p, call |-> DeleteCall(op, arg, active, resp)]

\* Delete of an Organization up to the answer of GetSignedInUser and the
\* test of the active organization against the one to delete.
DeleterStart(p) ==
    /\ cdPc[p] = "start"
    /\ \E resp \in {"ok", "fail"} :
         /\ cdCalls' = Append(cdCalls, DeleterCall(p, "GetSignedInUser", 0, cdActive, resp))
         /\ cdPc' = [cdPc EXCEPT ![p] =
                        IF resp = "fail" THEN "done"
                        ELSE IF cdActive = cdTarget[p] THEN "switch" ELSE "delete"]
    /\ UNCHANGED <<cdOrgs, cdActive, cdTarget, cdLowest>>

\* switchToLowestOrgId up to its call of UserSetUsingOrg.
DeleterSwitch(p) ==
    /\ cdPc[p] = "switch"
    /\ \E resp \in {"ok", "fail"} :
         /\ cdCalls' = Append(cdCalls, DeleterCall(p, "SearchOrgs", 0, cdActive, resp))
         /\ cdPc' = [cdPc EXCEPT ![p] = IF resp = "fail" THEN "done" ELSE "set"]
         /\ cdLowest' = [cdLowest EXCEPT ![p] =
                            IF resp = "fail" THEN @ ELSE LowestOrgId(cdOrgs)]
    /\ UNCHANGED <<cdOrgs, cdActive, cdTarget>>

\* The call of UserSetUsingOrg that ends switchToLowestOrgId.
DeleterSet(p) ==
    /\ cdPc[p] = "set"
    /\ \E resp \in IF cdLowest[p] \in cdOrgs THEN {"ok", "fail"} ELSE {"fail"} :
         /\ cdCalls' = Append(cdCalls,
                              DeleterCall(p, "UserSetUsingOrg", cdLowest[p], cdActive, resp))
         /\ cdPc' = [cdPc EXCEPT ![p] = IF resp = "fail" THEN "done" ELSE "delete"]
         /\ cdActive' = IF resp = "fail" THEN cdActive ELSE cdLowest[p]
    /\ UNCHANGED <<cdOrgs, cdTarget, cdLowest>>

\* The call of DeleteOrgByID that ends Delete.
DeleterDelete(p) ==
    /\ cdPc[p] = "delete"
    /\ \E resp \in {"ok", "fail"} :
         /\ cdCalls' = Append(cdCalls,
                              DeleterCall(p, "DeleteOrgByID", cdTarget[p], cdActive, resp))
         /\ cdOrgs' = IF resp = "ok" THEN cdOrgs \ {cdTarget[p]} ELSE cdOrgs
    /\ cdPc' = [cdPc EXCEPT ![p] = "done"]
    /\ UNCHANGED <<cdActive, cdTarget, cdLowest>>

\* No concurrent deletions are modelled in this run.
ConcurrentDeleteIdle ==
    /\ cdOrgs = {}
    /\ cdActive = 0
    /\ cdTarget = [p \in Deleters |-> 0]
    /\ cdPc = [p \in Deleters |-> "idle"]
    /\ cdLowest = [p \in Deleters |-> 0]
    /\ cdCalls = <<>>

\* Delete is called on two Organizations bound to two organizations of the
\* gateway; the account's active organization is one that exists.
ConcurrentDeleteInit ==
    /\ cdOrgs \in SUBSET (1..MaxOrgs)
    /\ cdTarget \in [Deleters -> cdOrgs]
    /\ cdTarget[1] # cdTarget[2]
    /\ cdActive \in cdOrgs
    /\ cdPc = [p \in Deleters |-> "start"]
    /\ cdLowest = [p \in Deleters |-> 0]
    /\ cdCalls = <<>>

(***************************************************************************)
(* Specifications.                                                         *)
(***************************************************************************)
\* Calls of the value comparator.
CompareNext ==
    \/ DoCompareMap /\ UNCHANGED <<optVars, usrVars, pgVars, delVars, obsVars, dsVars, orgVars, dbVars, rcVars, upVars, cdVars>>
    \/ DoCompareSlice /\ UNCHANGED <<optVars, usrVars, pgVars, delVars, obsVars, dsVars, orgVars, dbVars, rcVars, upVars, cdVars>>
    \/ DoCompareMapKeys /\ UNCHANGED <<optVars, usrVars, pgVars, delVars, obsVars, dsVars, orgVars, dbVars, rcVars, upVars, cdVars>>

InitCompare ==
    /\ CompareInit
    /\ OptionalIdle
    /\ UsersIdle
    /\ PagesIdle
    /\ DeleteIdle
    /\ ObserveIdle
    /\ UpToDateIdle
    /\ OrganizationIdle
    /\ DashboardIdle
    /\ ReconcileIdle
    /\ PassesIdle
    /\ ConcurrentDeleteIdle

SpecCompare == InitCompare /\ [][CompareNext]_vars

\* Calls of CompareOptional.
OptionalNext ==
    \/ DoCompareOptional /\ UNCHANGED <<cmpVars, usrVars, pgVars, delVars, obsVars, dsVars, orgVars, dbVars, rcVars, upVars, cdVars>>

InitOptional ==
    /\ OptionalInit
    /\ CompareIdle
    /\ UsersIdle
    /\ PagesIdle
    /\ DeleteIdle
    /\ ObserveIdle
    /\ UpToDateIdle
    /\ OrganizationIdle
    /\ DashboardIdle
    /\ ReconcileIdle
    /\ PassesIdle
    /\ ConcurrentDeleteIdle

SpecOptional == InitOptional /\ [][OptionalNext]_vars

\* userChanges on the observed and the desired members of an organization.
DeltaNext ==
    \/ UpdateUsersStart /\ UNCHANGED <<cmpVars, optVars, pgVars, delVars, obsVars, dsVars, orgVars, dbVars, rcVars, upVars, cdVars>>

InitDelta ==
    /\ DeltaInit
    /\ CompareIdle
    /\ OptionalIdle
    /\ PagesIdle
    /\ DeleteIdle
    /\ ObserveIdle
    /\ UpToDateIdle
    /\ OrganizationIdle
    /\ DashboardIdle
    /\ ReconcileIdle
    /\ PassesIdle
    /\ ConcurrentDeleteIdle

SpecDelta == InitDelta /\ [][DeltaNext]_vars

\* One call of updateUsers.
UsersNext ==
    \/ UpdateUsersStart /\ UNCHANGED <<cmpVars, optVars, pgVars, delVars, obsVars, dsVars, orgVars, dbVars, rcVars, upVars, cdVars>>
    \/ GetAllUsers /\ UNCHANGED <<cmpVars, optVars, pgVars, delVars, obsVars, dsVars, orgVars, dbVars, rcVars, upVars, cdVars>>
    \/ ResolveChange /\ UNCHANGED <<cmpVars, optVars, pgVars, delVars, obsVars, dsVars, orgVars, dbVars, rcVars, upVars, cdVars>>
    \/ ApplyChange /\ UNCHANGED <<cmpVars, optVars, pgVars, delVars, obsVars, dsVars, orgVars, dbVars, rcVars, upVars, cdVars>>

InitUsers ==
    /\ UsersInit
    /\ CompareIdle
    /\ OptionalIdle
    /\ PagesIdle
    /\ DeleteIdle
    /\ ObserveIdle
    /\ UpToDateIdle
    /\ OrganizationIdle
    /\ DashboardIdle
    /\ ReconcileIdle
    /\ PassesIdle
    /\ ConcurrentDeleteIdle

SpecUsers == InitUsers /\ [][UsersNext]_vars

\* One call of a paginated listing.
PagesNext ==
    \/ SearchNextPage /\ UNCHANGED <<cmpVars, optVars, usrVars, delVars, obsVars, dsVars, orgVars, dbVars, rcVars, upVars, cdVars>>

InitPages ==
    /\ PagesInit
    /\ CompareIdle
    /\ OptionalIdle
    /\ UsersIdle
    /\ DeleteIdle
    /\ ObserveIdle
    /\ UpToDateIdle
    /\ OrganizationIdle
    /\ DashboardIdle
    /\ ReconcileIdle
    /\ PassesIdle
    /\ ConcurrentDeleteIdle

SpecPages == InitPages /\ [][PagesNext]_vars

\* One call of Delete.
DeleteNext ==
    \/ DataSourceDelete /\ UNCHANGED <<cmpVars, optVars, usrVars, pgVars, obsVars, dsVars, orgVars, dbVars, rcVars, upVars, cdVars>>
    \/ FolderDelete /\ UNCHANGED <<cmpVars, optVars, usrVars, pgVars, obsVars, dsVars, orgVars, dbVars, rcVars, upVars, cdVars>>
    \/ DashboardDelete /\ UNCHANGED <<cmpVars, optVars, usrVars, pgVars, obsVars, dsVars, orgVars, dbVars, rcVars, upVars, cdVars>>
    \/ OrganizationDelete /\ UNCHANGED <<cmpVars, optVars, usrVars, pgVars, obsVars, dsVars, orgVars, dbVars, rcVars, upVars, cdVars>>
    \/ switchToLowestOrgId /\ UNCHANGED <<cmpVars, optVars, usrVars, pgVars, obsVars, dsVars, orgVars, dbVars, rcVars, upVars, cdVars>>
    \/ UserSetUsingOrg /\ UNCHANGED <<cmpVars, optVars, usrVars, pgVars, obsVars, dsVars, orgVars, dbVars, rcVars, upVars, cdVars>>
    \/ DeleteOrgByID /\ UNCHANGED <<cmpVars, optVars, usrVars, pgVars, obsVars, dsVars, orgVars, dbVars, rcVars, upVars, cdVars>>

InitDelete ==
    /\ DeleteInit
    /\ CompareIdle
    /\ OptionalIdle
    /\ UsersIdle
    /\ PagesIdle
    /\ ObserveIdle
    /\ UpToDateIdle
    /\ OrganizationIdle
    /\ DashboardIdle
    /\ ReconcileIdle
    /\ PassesIdle
    /\ ConcurrentDeleteIdle

SpecDelete == InitDelete /\ [][DeleteNext]_vars

\* The fetch of one call of Observe.
ObserveNext ==
    \/ ObserveFetch /\ UNCHANGED <<cmpVars, optVars, usrVars, pgVars, delVars, dsVars, orgVars, dbVars, rcVars, upVars, cdVars>>
    \/ ObserveFetchMatch /\ UNCHANGED <<cmpVars, optVars, usrVars, pgVars, delVars, dsVars, orgVars, dbVars, rcVars, upVars, cdVars>>
    \/ observeActualParameters /\ UNCHANGED <<cmpVars, optVars, usrVars, pgVars, delVars, dsVars, orgVars, dbVars, rcVars, upVars, cdVars>>
    \/ GetOrgUsers /\ UNCHANGED <<cmpVars, optVars, usrVars, pgVars, delVars, dsVars, orgVars, dbVars, rcVars, upVars, cdVars>>

InitObserve ==
    /\ ObserveInit
    /\ CompareIdle
    /\ OptionalIdle
    /\ UsersIdle
    /\ PagesIdle
    /\ DeleteIdle
    /\ UpToDateIdle
    /\ OrganizationIdle
    /\ DashboardIdle
    /\ ReconcileIdle
    /\ PassesIdle
    /\ ConcurrentDeleteIdle

SpecObserve == InitObserve /\ [][ObserveNext]_vars

\* One call of isUpToDate of the datasource controller.
UpToDateNext ==
    \/ DoIsUpToDate /\ UNCHANGED <<cmpVars, optVars, usrVars, pgVars, delVars, obsVars, orgVars, dbVars, rcVars, upVars, cdVars>>

InitUpToDate ==
    /\ UpToDateInit
    /\ CompareIdle
    /\ OptionalIdle
    /\ UsersIdle
    /\ PagesIdle
    /\ DeleteIdle
    /\ ObserveIdle
    /\ OrganizationIdle
    /\ DashboardIdle
    /\ ReconcileIdle
    /\ PassesIdle
    /\ ConcurrentDeleteIdle

SpecUpToDate == InitUpToDate /\ [][UpToDateNext]_vars

\* Observe, Create and Observe again of an Organization.
OrganizationNext ==
    \/ OrganizationObserve /\ UNCHANGED <<cmpVars, optVars, pgVars, delVars, obsVars, dsVars, dbVars, rcVars, upVars, cdVars>>
    \/ OrganizationCreate /\ UNCHANGED <<cmpVars, optVars, pgVars, delVars, obsVars, dsVars, dbVars, rcVars, upVars, cdVars>>
    \/ OrganizationCreateReturn /\ UNCHANGED <<cmpVars, optVars, pgVars, delVars, obsVars, dsVars, dbVars, rcVars, upVars, cdVars>>
    \/ UpdateUsersStart /\ orgPc = "users" /\ UNCHANGED <<cmpVars, optVars, pgVars, delVars, obsVars, dsVars, orgVars, dbVars, rcVars, upVars, cdVars>>
    \/ GetAllUsers /\ orgPc = "users" /\ UNCHANGED <<cmpVars, optVars, pgVars, delVars, obsVars, dsVars, orgVars, dbVars, rcVars, upVars, cdVars>>
    \/ ResolveChange /\ orgPc = "users" /\ UNCHANGED <<cmpVars, optVars, pgVars, delVars, obsVars, dsVars, orgVars, dbVars, rcVars, upVars, cdVars>>
    \/ ApplyChange /\ orgPc = "users" /\ UNCHANGED <<cmpVars, optVars, pgVars, delVars, obsVars, dsVars, orgVars, dbVars, rcVars, upVars, cdVars>>

InitOrganization ==
    /\ OrganizationInit
    /\ CompareIdle
    /\ OptionalIdle
    /\ PagesIdle
    /\ DeleteIdle
    /\ ObserveIdle
    /\ UpToDateIdle
    /\ DashboardIdle
    /\ ReconcileIdle
    /\ PassesIdle
    /\ ConcurrentDeleteIdle

SpecOrganization == InitOrganization /\ [][OrganizationNext]_vars

\* Observe of a Dashboard.
DashboardNext ==
    \/ DashboardObserve /\ UNCHANGED <<cmpVars, optVars, usrVars, pgVars, delVars, obsVars, dsVars, orgVars, rcVars, upVars, cdVars>>
    \/ DashboardCreate /\ UNCHANGED <<cmpVars, optVars, usrVars, pgVars, delVars, obsVars, dsVars, orgVars, rcVars, upVars, cdVars>>
    \/ DashboardUpdate /\ UNCHANGED <<cmpVars, optVars, usrVars, pgVars, delVars, obsVars, dsVars, orgVars, rcVars, upVars, cdVars>>
    \/ DashboardEdit /\ UNCHANGED <<cmpVars, optVars, usrVars, pgVars, delVars, obsVars, dsVars, orgVars, rcVars, upVars, cdVars>>

InitDashboard ==
    /\ DashboardInit
    /\ CompareIdle
    /\ OptionalIdle
    /\ UsersIdle
    /\ PagesIdle
    /\ DeleteIdle
    /\ ObserveIdle
    /\ UpToDateIdle
    /\ OrganizationIdle
    /\ ReconcileIdle
    /\ PassesIdle
    /\ ConcurrentDeleteIdle

SpecDashboard == InitDashboard /\ [][DashboardNext]_vars

\* The reconcile passes on one resource.
ReconcileNext ==
    \/ Observe /\ UNCHANGED <<cmpVars, optVars, usrVars, pgVars, delVars, obsVars, dsVars, orgVars, dbVars, upVars, cdVars>>
    \/ Create /\ UNCHANGED <<cmpVars, optVars, usrVars, pgVars, delVars, obsVars, dsVars, orgVars, dbVars, upVars, cdVars>>
    \/ Update /\ UNCHANGED <<cmpVars, optVars, usrVars, pgVars, delVars, obsVars, dsVars, orgVars, dbVars, upVars, cdVars>>
    \/ ChangeName /\ UNCHANGED <<cmpVars, optVars, usrVars, pgVars, delVars, obsVars, dsVars, orgVars, dbVars, upVars, cdVars>>

InitReconcile ==
    /\ ReconcileInit
    /\ CompareIdle
    /\ OptionalIdle
    /\ UsersIdle
    /\ PagesIdle
    /\ DeleteIdle
    /\ ObserveIdle
    /\ UpToDateIdle
    /\ OrganizationIdle
    /\ DashboardIdle
    /\ PassesIdle
    /\ ConcurrentDeleteIdle

SpecReconcile == InitReconcile /\ [][ReconcileNext]_vars

\* The passes on an Organization, its members changed by others too.
PassesNext ==
    \/ PassObserve /\ UNCHANGED <<cmpVars, optVars, pgVars, delVars, obsVars, dsVars, orgVars, dbVars, rcVars, cdVars>>
    \/ OrganizationUpdate /\ UNCHANGED <<cmpVars, optVars, pgVars, delVars, obsVars, dsVars, orgVars, dbVars, rcVars, cdVars>>
    \/ OrganizationUpdateReturn /\ UNCHANGED <<cmpVars, optVars, pgVars, delVars, obsVars, dsVars, orgVars, dbVars, rcVars, cdVars>>
    \/ OutsideChange /\ UNCHANGED <<cmpVars, optVars, pgVars, delVars, obsVars, dsVars, orgVars, dbVars, rcVars, cdVars>>
    \/ UpdateUsersStart /\ upPc = "users" /\ UNCHANGED <<cmpVars, optVars, pgVars, delVars, obsVars, dsVars, orgVars, dbVars, rcVars, upVars, cdVars>>
    \/ GetAllUsers /\ upPc = "users" /\ UNCHANGED <<cmpVars, optVars, pgVars, delVars, obsVars, dsVars, orgVars, dbVars, rcVars, upVars, cdVars>>
    \/ ResolveChange /\ upPc = "users" /\ UNCHANGED <<cmpVars, optVars, pgVars, delVars, obsVars, dsVars, orgVars, dbVars, rcVars, upVars, cdVars>>
    \/ ApplyChange /\ upPc = "users" /\ UNCHANGED <<cmpVars, optVars, pgVars, delVars, obsVars, dsVars, orgVars, dbVars, rcVars, upVars, cdVars>>

InitPasses ==
    /\ PassesInit
    /\ CompareIdle
    /\ OptionalIdle
    /\ PagesIdle
    /\ DeleteIdle
    /\ ObserveIdle
    /\ UpToDateIdle
    /\ OrganizationIdle
    /\ DashboardIdle
    /\ ReconcileIdle
    /\ ConcurrentDeleteIdle

SpecPasses == InitPasses /\ [][PassesNext]_vars

\* The passes on an Organization whose members nobody else changes; the
\* reconciler calls the next handler again and again.
QuietPassesNext ==
    \/ PassObserve /\ UNCHANGED <<cmpVars, optVars, pgVars, delVars, obsVars, dsVars, orgVars, dbVars, rcVars, cdVars>>
    \/ OrganizationUpdate /\ UNCHANGED <<cmpVars, optVars, pgVars, delVars, obsVars, dsVars, orgVars, dbVars, rcVars, cdVars>>
    \/ OrganizationUpdateReturn /\ UNCHANGED <<cmpVars, optVars, pgVars, delVars, obsVars, dsVars, orgVars, dbVars, rcVars, cdVars>>
    \/ UpdateUsersStart /\ upPc = "users" /\ UNCHANGED <<cmpVars, optVars, pgVars, delVars, obsVars, dsVars, orgVars, dbVars, rcVars, upVars, cdVars>>
    \/ GetAllUsers /\ upPc = "users" /\ UNCHANGED <<cmpVars, optVars, pgVars, delVars, obsVars, dsVars, orgVars, dbVars, rcVars, upVars, cdVars>>
    \/ ResolveChange /\ upPc = "users" /\ UNCHANGED <<cmpVars, optVars, pgVars, delVars, obsVars, dsVars, orgVars, dbVars, rcVars, upVars, cdVars>>
    \/ ApplyChange /\ upPc = "users" /\ UNCHANGED <<cmpVars, optVars, pgVars, delVars, obsVars, dsVars, orgVars, dbVars, rcVars, upVars, cdVars>>

InitQuietPasses ==
    /\ PassesInit
    /\ CompareIdle
    /\ OptionalIdle
    /\ PagesIdle
    /\ DeleteIdle
    /\ ObserveIdle
    /\ UpToDateIdle
    /\ OrganizationIdle
    /\ DashboardIdle
    /\ ReconcileIdle
    /\ ConcurrentDeleteIdle

SpecQuietPasses == InitQuietPasses /\ [][QuietPassesNext]_vars /\ WF_vars(QuietPassesNext)

\* The passes on a resource that someone else may delete; the reconciler
\* calls the next handler again and again.
ReconcileHandlers ==
    (Observe \/ Create \/ Update) /\ UNCHANGED <<cmpVars, optVars, usrVars, pgVars, delVars, obsVars, dsVars, orgVars, dbVars, upVars, cdVars>>

StaleNext ==
    \/ Observe /\ UNCHANGED <<cmpVars, optVars, usrVars, pgVars, delVars, obsVars, dsVars, orgVars, dbVars, upVars, cdVars>>
    \/ Create /\ UNCHANGED <<cmpVars, optVars, usrVars, pgVars, delVars, obsVars, dsVars, orgVars, dbVars, upVars, cdVars>>
    \/ Update /\ UNCHANGED <<cmpVars, optVars, usrVars, pgVars, delVars, obsVars, dsVars, orgVars, dbVars, upVars, cdVars>>
    \/ DeletedOutOfBand /\ UNCHANGED <<cmpVars, optVars, usrVars, pgVars, delVars, obsVars, dsVars, orgVars, dbVars, upVars, cdVars>>

InitStale ==
    /\ ReconcileInit
    /\ CompareIdle
    /\ OptionalIdle
    /\ UsersIdle
    /\ PagesIdle
    /\ DeleteIdle
    /\ ObserveIdle
    /\ UpToDateIdle
    /\ OrganizationIdle
    /\ DashboardIdle
    /\ PassesIdle
    /\ ConcurrentDeleteIdle

SpecStale == InitStale /\ [][StaleNext]_vars /\ WF_vars(ReconcileHandlers)

\* Two deletions of Organizations at once.
ConcurrentDeleteNext ==
    \/ (\E p \in Deleters : DeleterStart(p)) /\ UNCHANGED <<cmpVars, optVars, usrVars, pgVars, delVars, obsVars, dsVars, orgVars, dbVars, rcVars, upVars>>
    \/ (\E p \in Deleters : DeleterSwitch(p)) /\ UNCHANGED <<cmpVars, optVars, usrVars, pgVars, delVars, obsVars, dsVars, orgVars, dbVars, rcVars, upVars>>
    \/ (\E p \in Deleters : DeleterSet(p)) /\ UNCHANGED <<cmpVars, optVars, usrVars, pgVars, delVars, obsVars, dsVars, orgVars, dbVars, rcVars, upVars>>
    \/ (\E p \in Deleters : DeleterDelete(p)) /\ UNCHANGED <<cmpVars, optVars, usrVars, pgVars, delVars, obsVars, dsVars, orgVars, dbVars, rcVars, upVars>>

InitConcurrentDelete ==
    /\ ConcurrentDeleteInit
    /\ CompareIdle
    /\ OptionalIdle
    /\ UsersIdle
    /\ PagesIdle
    /\ DeleteIdle
    /\ ObserveIdle
    /\ UpToDateIdle
    /\ OrganizationIdle
    /\ DashboardIdle
    /\ ReconcileIdle
    /\ PassesIdle

SpecConcurrentDelete == InitConcurrentDelete /\ [][ConcurrentDeleteNext]_vars

\* Every run above.
Init ==
    \/ InitCompare
    \/ InitOptional
    \/ InitDelta
    \/ InitUsers
    \/ InitPages
    \/ InitDelete
    \/ InitObserve
    \/ InitUpToDate
    \/ InitOrganization
    \/ InitDashboard
    \/ InitReconcile
    \/ InitPasses
    \/ InitConcurrentDelete

Next ==
    \/ CompareNext
    \/ OptionalNext
    \/ UsersNext
    \/ PagesNext
    \/ DeleteNext
    \/ ObserveNext
    \/ UpToDateNext
    \/ OrganizationNext
    \/ DashboardNext
    \/ ReconcileNext
    \/ PassesNext
    \/ StaleNext
    \/ ConcurrentDeleteNext

Spec == Init /\ [][Next]_vars

(***************************************************************************)
(* Properties of the value comparator.                                     *)
(***************************************************************************)
IsNumber(kind) == kind \in {"int", "int64", "float64"}

\* Equality of two semi-structured values as the design states it: scalars
\* of one primitive kind, or numbers, are equal when the actual value
\* converted into the type of the desired value equals it; mappings when
\* they have the same keys and equal values under every key; sequences when
\* they have the same length and equal elements at every position.
RECURSIVE SpecEqual(_, _)
SpecEqual(d, a) ==
    IF d.kind = "map" /\ a.kind = "map"
    THEN /\ KeySet(d) = KeySet(a)
         /\ \A key \in KeySet(d) : SpecEqual(MapGet(d, key), MapGet(a, key))
    ELSE IF d.kind = "slice" /\ a.kind = "slice"
    THEN /\ Len(d.elems) = Len(a.elems)
         /\ \A i \in 1..Len(d.elems) : SpecEqual(d.elems[i], a.elems[i])
    ELSE IF IsNumber(d.kind) /\ IsNumber(a.kind)
    THEN Convert(a, d.kind).num = d.num
    ELSE IF d.kind = a.kind /\ d.kind \in {"bool", "string", "nil"}
    THEN d.num = a.num /\ d.str = a.str
    ELSE FALSE

\* C1: CompareMap returns true only if desired and actual have the same keys
\* and equal values under every key, whatever the order the keys are visited in.
C1_TrueOnlyIfEqual ==
    (cmpFn = "CompareMap" /\ cmpResult = "true") => SpecEqual(cmpDesired, cmpActual)

\* The first key CompareMap visited holds a mapping in desired and a sequence
\* in actual.
MapAgainstSliceFirst ==
    /\ cmpFn = "CompareMap"
    /\ cmpFirst # ""
    /\ HasKey(cmpActual, cmpFirst)
    /\ MapGet(cmpDesired, cmpFirst).kind = "map"
    /\ MapGet(cmpActual, cmpFirst).kind = "slice"

C3_Reflexive ==
    (cmpFn = "CompareMap" /\ cmpDesired = cmpActual) => cmpResult = "true"

\* Two mappings with the same keys whose values are all numbers that are
\* equal as numbers, whatever their native types.
NumericallyEqualMaps(d, a) ==
    /\ KeySet(d) = KeySet(a)
    /\ \A key \in KeySet(d) :
         /\ IsNumber(MapGet(d, key).kind)
         /\ IsNumber(MapGet(a, key).kind)
         /\ MapGet(d, key).num = MapGet(a, key).num

\* C4: CompareMap returns true for mappings with the same keys whose values
\* are numerically equal but of different native representations.
C4_NumericRepresentations ==
    (cmpFn = "CompareMap" /\ NumericallyEqualMaps(cmpDesired, cmpActual)) => cmpResult = "true"

C4_Witness ==
    /\ cmpFn = "CompareMap"
    /\ cmpResult = "true"
    /\ NumericallyEqualMaps(cmpDesired, cmpActual)
    /\ \E k1, k2 \in KeySet(cmpDesired) :
         /\ MapGet(cmpDesired, k1).kind = "int" /\ MapGet(cmpActual, k1).kind = "float64"
         /\ MapGet(cmpDesired, k2).kind = "int64" /\ MapGet(cmpActual, k2).kind = "int"

\* C5: CompareMap and CompareMapKeys return false, with no error, whenever
\* the two mappings have different key sets.
C5_DifferentKeySetsFalse ==
    (cmpFn \in {"CompareMap", "CompareMapKeys"} /\ KeySet(cmpDesired) # KeySet(cmpActual))
        => cmpResult = "false"

\* C6: CompareSlice returns true exactly when the two sequences have the same
\* length and equal elements at every position.
C6_SliceEqualInOrder ==
    cmpFn = "CompareSlice" => (cmpResult = "true" <=> SpecEqual(cmpDesired, cmpActual))

(***************************************************************************)
(* Properties of CompareOptional.                                          *)
(***************************************************************************)
\* C7: CompareOptional is true exactly when actual equals the declared value
\* if desired is present, and exactly when actual equals the default if
\* desired is absent.
C7_CompareOptional ==
    optResult \in {"true", "false"} =>
        (optResult = "true" <=>
            IF optDesired.present THEN optActual = optDesired.val
            ELSE optActual = optDefault)

\* desired is present, actual is the default and not the declared value.
C7_Witness ==
    /\ optResult = "false"
    /\ optDesired.present
    /\ optActual = optDefault
    /\ optActual # optDesired.val

(***************************************************************************)
(* Properties of the membership delta.                                     *)
(***************************************************************************)
AllEmails == {EmailOrder[i] : i \in 1..Len(EmailOrder)}

\* The number of changes of one type for one email.
CountOf(changes, type, email) ==
    Cardinality({i \in 1..Len(changes) :
                    changes[i].Type = type /\ changes[i].User.Email = email})

\* userChanges has returned.
ChangesComputed == usrPc \notin {"idle", "start"}

\* C8: userChanges emits exactly one Add per key in desired and not in
\* stateful, exactly one Update carrying the desired role per key in both
\* with different roles, exactly one Remove per key in stateful and not in
\* desired, and nothing else.
C8_UserChanges ==
    ChangesComputed =>
        LET S == usrStateUsers
            D == usrConfigUsers
        IN  /\ \A i \in 1..Len(usrChanges) :
                 /\ usrChanges[i].Type \in {"Add", "Update", "Remove"}
                 /\ usrChanges[i].User.Email \in AllEmails
                 /\ usrChanges[i].Type \in {"Add", "Update"} =>
                        usrChanges[i].User = D[usrChanges[i].User.Email]
            /\ \A e \in AllEmails :
                 /\ CountOf(usrChanges, "Add", e) =
                        IF e \in DOMAIN D \ DOMAIN S THEN 1 ELSE 0
                 /\ CountOf(usrChanges, "Update", e) =
                        IF e \in DOMAIN D \cap DOMAIN S /\ S[e].Role # D[e].Role THEN 1 ELSE 0
                 /\ CountOf(usrChanges, "Remove", e) =
                        IF e \in DOMAIN S \ DOMAIN D THEN 1 ELSE 0

\* An Add, an Update and a Remove in one delta.
C8_Witness ==
    /\ ChangesComputed
    /\ \E i, j, k \in 1..Len(usrChanges) :
         /\ usrChanges[i].Type = "Add"
         /\ usrChanges[j].Type = "Update"
         /\ usrChanges[k].Type = "Remove"

\* C9: two spellings of one email that differ only in letter case never
\* yield an Add for one spelling together with a Remove for the other.
C9_NoAddWithRemoveOfOtherSpelling ==
    ChangesComputed =>
        ~ \E i, j \in 1..Len(usrChanges) :
            /\ usrChanges[i].Type = "Add"
            /\ usrChanges[j].Type = "Remove"
            /\ ToLower(usrChanges[i].User.Email) = ToLower(usrChanges[j].User.Email)

(***************************************************************************)
(* Properties of updateUsers.                                              *)
(***************************************************************************)
\* The directory listing was answered.
ListingOk == usrCalls # <<>> /\ usrCalls[1].op = "SearchUsers" /\ usrCalls[1].resp = "ok"

\* The Remove changes whose email the directory listing does not hold.
RemovesOfMissingUsers ==
    {i \in 1..Len(usrChanges) :
        usrChanges[i].Type = "Remove" /\ usrChanges[i].User.Email \notin DOMAIN gUserMap}

CallsFor(op, email) ==
    {i \in 1..Len(usrCalls) : usrCalls[i].op = op /\ usrCalls[i].email = email}

\* Nothing else goes wrong in the pass: no gateway call fails and no user to
\* add or update is missing while users are not created.
NothingElseFails ==
    /\ \A i \in 1..Len(usrCalls) : usrCalls[i].resp # "fail"
    /\ \A j \in 1..Len(usrChanges) :
         \/ usrChanges[j].User.Email \in DOMAIN gUserMap
         \/ usrChanges[j].Type = "Remove"
         \/ CreateEnabled(usrSpec)

\* C10: a Remove whose email is absent from the directory listing is dropped
\* without any gateway call for it; the other changes are still applied and
\* updateUsers returns no error.
C10_RemoveOfMissingUserDropped ==
    (usrPc = "done" /\ ListingOk) =>
        \A i \in RemovesOfMissingUsers :
            /\ \A op \in {"AddOrgUser", "UpdateOrgUser", "RemoveOrgUser", "AdminCreateUser"} :
                 CallsFor(op, usrChanges[i].User.Email) = {}
            /\ NothingElseFails =>
                 /\ usrErr = NoError
                 /\ \A j \in (1..Len(usrChanges)) \ RemovesOfMissingUsers :
                      Cardinality(CallsFor(OpOf(usrChanges[j].Type),
                                           usrChanges[j].User.Email)) = 1

\* Observed {u1: Viewer, u2: Editor}, desired {u1: Editor}, u2 gone from the
\* directory: the only change applied is the Update of u1, with no error.
C10_Witness ==
    /\ usrPc = "done"
    /\ usrErr = NoError
    /\ usrStateUsers = [e \in PassEmails |->
                           OrgUser(e, IF e = "u1@x.com" THEN "Viewer" ELSE "Editor")]
    /\ usrConfigUsers = [e \in {"u1@x.com"} |-> OrgUser(e, "Editor")]
    /\ DOMAIN gUserMap = {"u1@x.com"}
    /\ usrCalls = <<Call("SearchUsers", "", 0, "", "ok"),
                    Call("UpdateOrgUser", "u1@x.com", UserID("u1@x.com"), "Editor", "ok")>>

MembershipOps == {"AddOrgUser", "UpdateOrgUser", "RemoveOrgUser"}

\* The Add and Update changes whose email the directory listing does not hold.
ChangesOfMissingUsers ==
    {i \in 1..Len(usrChanges) :
        usrChanges[i].Type \in {"Add", "Update"}
            /\ usrChanges[i].User.Email \notin DOMAIN gUserMap}

\* C11: with CreateUsers set to false, an Add or Update whose email is absent
\* from the directory makes updateUsers fail with an error that names that
\* email; no user is created and no AddOrgUser, UpdateOrgUser or
\* RemoveOrgUser call is issued in the pass.
C11_MissingUserIsFatal ==
    (usrPc = "done" /\ ListingOk /\ usrSpec.CreateUsers = "false"
        /\ ChangesOfMissingUsers # {}) =>
        /\ usrErr.kind = "missing"
        /\ usrErr.email \in {usrChanges[i].User.Email : i \in ChangesOfMissingUsers}
        /\ \A i \in 1..Len(usrCalls) : usrCalls[i].op = "SearchUsers"
        /\ grafanaUsers = gUserMap

\* Two changes, one for a user of the directory and one for a user it does
\* not hold, with CreateUsers false: the pass ended with the error.
C11_Witness ==
    /\ usrPc = "done"
    /\ usrSpec.CreateUsers = "false"
    /\ Len(usrChanges) = 2
    /\ Cardinality(ChangesOfMissingUsers) = 1
    /\ usrErr.kind = "missing"
    /\ usrCalls = <<Call("SearchUsers", "", 0, "", "ok")>>

\* addUserIdsToChanges returned its output with no error.
IdsResolved ==
    \/ usrPc = "apply"
    \/ usrPc = "done" /\ ListingOk /\ usrErr.kind \in {"none", "gateway"}

\* The IDs the directory listing or createUser gave for an email.
IDsGiven(email) ==
    IF email \in DOMAIN gUserMap THEN {gUserMap[email]}
    ELSE {usrCalls[c].id : c \in {c \in CallsFor("AdminCreateUser", email) :
                                      usrCalls[c].resp = "ok"}}

\* C12: with CreateUsers true or unset, an Add or Update whose email is
\* absent from the directory causes exactly one createUser call for that
\* email and the change carries the ID it returned; every change
\* addUserIdsToChanges returns carries the ID the directory listing or
\* createUser gave for its email.
C12_CreatedUserCarriesID ==
    IdsResolved =>
        /\ usrSpec.CreateUsers \in {"nil", "true"} =>
             \A i \in ChangesOfMissingUsers :
                 /\ Cardinality(CallsFor("AdminCreateUser", usrChanges[i].User.Email)) = 1
                 /\ \E j \in 1..Len(usrOutput) :
                      /\ usrOutput[j].Type = usrChanges[i].Type
                      /\ usrOutput[j].User.Email = usrChanges[i].User.Email
                      /\ usrOutput[j].User.ID \in IDsGiven(usrChanges[i].User.Email)
        /\ \A j \in 1..Len(usrOutput) :
             /\ usrOutput[j].User.ID \in IDsGiven(usrOutput[j].User.Email)
             /\ usrOutput[j].User.ID # 0

\* CreateUsers unset: one change got its ID from the listing and the other
\* from createUser.
C12_Witness ==
    /\ IdsResolved
    /\ usrSpec.CreateUsers = "nil"
    /\ Len(usrOutput) = 2
    /\ Cardinality(ChangesOfMissingUsers) = 1
    /\ \E j \in 1..2 : usrOutput[j].User.Email \in DOMAIN gUserMap
    /\ \E j \in 1..2 : usrOutput[j].User.ID > Len(EmailOrder)

\* The membership calls issued so far, in order.
MembershipCalls == SelectSeq(usrCalls, LAMBDA c : c.op \in MembershipOps)

\* C13: in updateUsers a conflict (409) answer to an AddOrgUser,
\* UpdateOrgUser or RemoveOrgUser call counts as success for that change
\* only: the remaining changes are still issued and no error is returned
\* because of it.
C13_ConflictSwallowed ==
    (usrPc = "done" /\ IdsResolved
        /\ (\E i \in 1..Len(usrCalls) : usrCalls[i].resp = "conflict")
        /\ (\A k \in 1..Len(usrCalls) : usrCalls[k].resp \in {"ok", "conflict"})) =>
        /\ usrErr = NoError
        /\ Len(MembershipCalls) = Len(usrOutput)
        /\ \A j \in 1..Len(usrOutput) :
             /\ MembershipCalls[j].op = OpOf(usrOutput[j].Type)
             /\ MembershipCalls[j].email = usrOutput[j].User.Email
             /\ MembershipCalls[j].id = usrOutput[j].User.ID

\* The first of two changes was answered with a conflict and the second was
\* still issued and applied.
C13_Witness ==
    /\ usrPc = "done"
    /\ usrErr = NoError
    /\ Len(usrOutput) = 2
    /\ Len(MembershipCalls) = 2
    /\ MembershipCalls[1].resp = "conflict"
    /\ MembershipCalls[2].resp = "ok"

\* C14: in updateUsers a failure of a membership call that is not a conflict
\* response stops the loop: it is the last call of the pass and its error is
\* returned.
C14_FailureStopsLoop ==
    \A i \in 1..Len(usrCalls) :
        (usrCalls[i].op \in MembershipOps /\ usrCalls[i].resp \in {"fail", "fail409"}) =>
            /\ i = Len(usrCalls)
            /\ usrPc = "done"
            /\ usrErr = ErrorOf("gateway", usrCalls[i].email)

(***************************************************************************)
(* Properties of the paginated listings.                                   *)
(***************************************************************************)
\* The requests a listing of the elements held needs: floor(N/P) + 1.
RequestsNeeded == Len(pgListing) \div pgPerpage + 1

C16_DeleteWithoutIdentity ==
    (delPc = "done" /\ delStatusID = 0) => (delResult = "nil" /\ delCalls = <<>>)

\* C17: in Delete of an Organization, another organization existing, the
\* active organization at the time of the DeleteOrgByID call differs from
\* the organization deleted: when it is the one being deleted it was
\* switched to another one before; and after a switch that failed no delete
\* call is issued.
C17_SwitchBeforeDelete ==
    \A i \in 1..Len(delCalls) :
        delCalls[i].op = "DeleteOrgByID" =>
            /\ delOrgs \ {delCalls[i].arg} # {} =>
                   delCalls[i].active # delCalls[i].arg
            /\ \A j \in 1..(i - 1) : delCalls[j].resp = "ok"

(***************************************************************************)
(* Properties of the fetch of Observe.                                     *)
(***************************************************************************)
\* Observe has returned after at least one gateway call.
Observed == obsPc = "done" /\ obsCalls # <<>>

LastObserveCall == obsCalls[Len(obsCalls)]

FetchesIgnoringStatus ==
    {"GetDataSourceById", "GetDataSourceByName", "GetFolderByUid", "GetFolderById",
     "GetDashboardByUid"}

DataSourceFieldsMatch ==
    /\ ScalarsUpToDate(dsSpec, dsCrName, dsActual, dsOrgId)
    /\ \E d \in jsonDataWithHeaders(dsSpec.JSONData, dsSpec.SecureJSONData, dsHeaders) :
         /\ SpecEqual(d.jsonData, dsActual.JSONData)
         /\ DOMAIN d.secureJSONData = dsActual.SecureJSONFields

\* C19: isUpToDate returns true exactly when every compared field matches
\* after defaulting, and false with a nil error when one differs.
C19_UpToDateIffFieldsMatch ==
    (dsResult \notin {"idle", "pending"} /\ dsSpec.JSONDataParses) =>
        dsResult = IF DataSourceFieldsMatch THEN "true" ELSE "false"

(***************************************************************************)
(* Properties of Observe and Create of an Organization.                    *)
(***************************************************************************)
\* C20: from a remote with no counterpart and an empty Status Record, Observe
\* reports non-existence, and after a Create that succeeded, the
\* organization created and every role assignment applied, the next Observe
\* reports ResourceExists=true and ResourceUpToDate=true.
C20_CreateThenUpToDate ==
    /\ orgFirst \in {"pending", "absent", "error"}
    /\ (orgPc = "done" /\ orgSecond \notin {"pending", "error"} /\ ~orgCreateErr
           /\ \A i \in 1..Len(usrCalls) : usrCalls[i].resp = "ok") =>
           orgSecond = "upToDate"

(***************************************************************************)
(* Properties of the order of the calls of updateUsers.                    *)
(***************************************************************************)
TypeRank(op) ==
    IF op = "AddOrgUser" THEN 1 ELSE IF op = "UpdateOrgUser" THEN 2 ELSE 3

\* The membership calls are those of the changes addUserIdsToChanges
\* returned, in their order.
CallsFollowOutput ==
    /\ Len(MembershipCalls) <= Len(usrOutput)
    /\ \A k \in 1..Len(MembershipCalls) :
         /\ MembershipCalls[k].op = OpOf(usrOutput[k].Type)
         /\ MembershipCalls[k].email = usrOutput[k].User.Email

\* The changes of userChanges less the Removes of users the directory
\* listing does not hold, in their order.
KeptChanges ==
    SelectSeq(usrChanges,
              LAMBDA c : ~(c.Type = "Remove" /\ c.User.Email \notin DOMAIN gUserMap))

\* The changes addUserIdsToChanges returned are those of userChanges it kept,
\* in the order userChanges emitted them.
OutputFollowsChanges ==
    /\ Len(usrOutput) = Len(KeptChanges)
    /\ \A k \in 1..Len(usrOutput) :
         /\ usrOutput[k].Type = KeptChanges[k].Type
         /\ usrOutput[k].User.Email = KeptChanges[k].User.Email

\* C28 as stated: updateUsers applies the changes in the order userChanges
\* emits them and that order is grouped: every Add is applied before every
\* Update and every Update before every Remove.
C28_AddUpdateRemoveGroups ==
    /\ CallsFollowOutput
    /\ \A i, j \in 1..Len(MembershipCalls) :
         i < j => TypeRank(MembershipCalls[i].op) <= TypeRank(MembershipCalls[j].op)

\* C28 as amended: updateUsers applies the changes in the order userChanges
\* emits them, less the Removes of users missing from the directory; every
\* Remove is applied after every Add and every Update, while the Adds and
\* Updates come in the order the range loop visits the desired users and can
\* interleave.
C28_RemovesLast ==
    /\ CallsFollowOutput
    /\ MembershipCalls # <<>> => OutputFollowsChanges
    /\ \A i, j \in 1..Len(MembershipCalls) :
         (i < j /\ MembershipCalls[i].op = "RemoveOrgUser") =>
             MembershipCalls[j].op = "RemoveOrgUser"

\* An Update was applied before an Add.
C28_Witness ==
    /\ usrPc = "done"
    /\ Len(MembershipCalls) = 2
    /\ MembershipCalls[1].op = "UpdateOrgUser"
    /\ MembershipCalls[2].op = "AddOrgUser"
    /\ MembershipCalls[2].resp = "ok"

\* Every change of userChanges has been handled by addUserIdsToChanges: it is
\* the Remove of a user the directory does not list, or the output holds it
\* with an ID.
EveryChangeResolved ==
    /\ OutputFollowsChanges
    /\ \A k \in 1..Len(usrOutput) : usrOutput[k].User.ID # 0

\* C29: updateUsers issues no AddOrgUser, UpdateOrgUser or RemoveOrgUser
\* call until the directory listing has completed and every change has had
\* its identity resolved or its user created; when the listing or a
\* materialization fails, no membership change is applied in that pass.
C29_ResolveBeforeApply ==
    /\ MembershipCalls # <<>> =>
         /\ ListingOk
         /\ EveryChangeResolved
         /\ \A i, j \in 1..Len(usrCalls) :
              (i < j /\ usrCalls[i].op \in MembershipOps) => usrCalls[j].op \in MembershipOps
    /\ usrErr.kind \in {"listing", "missing", "create"} =>
         /\ usrPc = "done"
         /\ MembershipCalls = <<>>

\* The first of two changes was resolved from the listing, the creation of
\* the user of the second failed: the pass ended with no membership call.
C29_Witness ==
    /\ usrPc = "done"
    /\ usrErr.kind = "create"
    /\ Len(usrChanges) = 2
    /\ Len(usrOutput) = 1
    /\ usrOutput[1].User.ID # 0
    /\ MembershipCalls = <<>>
    /\ Len(usrCalls) = 2

(***************************************************************************)
(* Properties of the headers and the secure fields of a data source.       *)
(***************************************************************************)
\* The pairs jsonDataWithHeaders can return for the desired payload, secure
\* data and headers.
DesiredWithHeaders ==
    jsonDataWithHeaders(dsSpec.JSONData, dsSpec.SecureJSONData, dsHeaders)

\* isUpToDate has returned a verdict.
HasVerdict == dsResult \in {"true", "false"}

\* C25: jsonDataWithHeaders is deterministic: for the same payload, secure
\* payload and headers every invocation assigns the same header to each
\* httpHeaderName<i> / httpHeaderValue<i> key, so a data source whose remote
\* payload is one the function built from the desired payload and headers is
\* never reported as drifted.
C25_HeadersDeterministic ==
    /\ Cardinality(DesiredWithHeaders) = 1
    /\ (HasVerdict /\ DataSourceFieldsMatch) => dsResult = "true"

\* The keys of the desired secure data: the declared secure keys and the
\* injected httpHeaderValue<i> keys, the same in every pair.
DesiredSecureKeys == UNION {DOMAIN d.secureJSONData : d \in DesiredWithHeaders}

\* The secure data and the headers with the same keys and names as the
\* desired ones and any secret values.
SameKeysOtherValues ==
    {<<sjd, h>> \in SecureMaps \X HeaderMaps :
        DOMAIN sjd = DOMAIN dsSpec.SecureJSONData /\ DOMAIN h = DOMAIN dsHeaders}

\* C26: the verdict compares secure fields by key presence only: it is false
\* when the desired secure key set differs from the key set of the secure
\* fields of the remote, and it is the same whatever the secret values.
C26_SecureKeysOnly ==
    (dsResult \notin {"idle", "pending"} /\ dsSpec.JSONDataParses) =>
        /\ DesiredSecureKeys # dsActual.SecureJSONFields => dsResult = "false"
        /\ \A pair \in SameKeysOtherValues :
             dsResult \in isUpToDate([dsSpec EXCEPT !.SecureJSONData = pair[1]],
                                     dsCrName, dsActual, dsOrgId, pair[2])

(***************************************************************************)
(* Properties of Observe of a Dashboard.                                   *)
(***************************************************************************)
\* C27: for the declared specification and the dashboard fetched, the
\* verdict Observe returned is the verdict it returns for every other prior
\* content of the Status Record.
C27_VerdictIgnoresStatus ==
    dbResult \in {"upToDate", "notUpToDate"} =>
        \A prior \in DashboardStatuses :
            dashboardIsUpToDate(dbSpec, dbRemote, prior) = (dbResult = "upToDate")

\* C36: Observe reports a Dashboard up to date only when a Create or Update
\* of this instance submitted the declared configuration and the gateway
\* accepted it.
C36_UpToDateOnlyIfSubmitted ==
    dbResult = "upToDate" => dbSpec.ConfigJSON \in dbSubmitted

(***************************************************************************)
(* Properties of the reconcile passes.                                     *)
(***************************************************************************)
\* The call Create made to create the resource, when it was answered with
\* that status or another.
CreateAnswered(accepted) ==
    \E i \in DOMAIN rcCalls :
        /\ rcCalls[i].op = CreateOp(rcKind)
        /\ (rcCalls[i].code = 200) = accepted

\* C21: after a successful Create the Status Record holds the identity the
\* gateway gave the new resource.
C21_CreatePersistsIdentity ==
    (rcOp = "Create" /\ rcResult = "ok") =>
        \E i \in DOMAIN rcCalls :
            /\ rcCalls[i].op = CreateOp(rcKind)
            /\ rcCalls[i].code = 200
            /\ rcStatus.ID = rcCalls[i].id

\* C22: a Create the gateway rejected returns an error and leaves the
\* Status Record as it was.
C22_RejectedCreateReturnsError ==
    (rcOp = "Create" /\ CreateAnswered(FALSE)) =>
        /\ rcResult = "error"
        /\ rcStatus = rcBefore

\* The calls that change something at the gateway.
MutationOps ==
    {CreateOp(k) : k \in Kinds} \cup {UpdateOp(k) : k \in SimpleKinds} \cup {"updateUsers"}

\* The Status Record holds the identity of a resource whose name is not the
\* declared one.
NameChanged(status) ==
    /\ status.ID # 0
    /\ Exists(rcRemote, status.ID)
    /\ rcRemote[status.ID] # rcName

\* The gateway answered every call of the pass with the true answer.
TrueAnswers == \A i \in DOMAIN rcCalls : rcCalls[i].code \in {200, 404, 409}

\* C23: in a pass on an Organization or a DataSource that started with the
\* identity of a resource of another name recorded, no handler calls a
\* mutation, Observe does not report the resource up to date, and Create or
\* Update returns the name-changed error.
C23_NameChangeIsFatal ==
    (/\ rcKind \in {"organization", "datasource"}
     /\ rcOp # "none"
     /\ NameChanged(rcPass)
     /\ TrueAnswers) =>
        /\ \A i \in DOMAIN rcCalls : rcCalls[i].op \notin MutationOps
        /\ rcResult # "upToDate"
        /\ rcOp \in {"Create", "Update"} => rcResult = "nameChanged"

\* C24: a handler called with an identity in the Status Record leaves an
\* identity in it.
C24_IdentityNeverCleared == rcBefore.ID # 0 => rcStatus.ID # 0

\* Observe reported the resource absent, or Update failed, with an identity
\* recorded.
C24_Witness ==
    /\ rcBefore.ID # 0
    /\ rcStatus.ID # 0
    /\ rcOp = "Observe"
    /\ rcResult = "absent"

\* The calls that look a resource up by its name.
ByNameOps == {"GetOrgByName", "GetDataSourceByName", "Search"}

\* C30: Observe called with an identity recorded fetches by that identity
\* and calls no lookup by name; called with none it looks up the declared
\* name first, and reports the resource absent when no resource has it.
C30_FetchByRecordedIdentity ==
    (rcOp = "Observe" /\ rcCalls # <<>>) =>
        IF rcBefore.ID # 0
        THEN /\ rcCalls[1].id = rcBefore.ID
             /\ \A i \in DOMAIN rcCalls : rcCalls[i].op \notin ByNameOps
        ELSE /\ rcCalls[1].op \in ByNameOps
             /\ rcCalls[1].name = rcName
             /\ (IdOfName(rcRemote, rcName) = 0 /\ rcCalls[1].code \in {200, 404}) =>
                    rcResult = "absent"

(***************************************************************************)
(* Properties of the comparison of numbers.                                *)
(***************************************************************************)
\* C33: when CompareMap returned true and the key it visited first holds a
\* number in desired and a number in actual, the two numbers are the same
\* mathematical value.
C33_EqualNumbersOnly ==
    (/\ cmpFn = "CompareMap"
     /\ cmpResult = "true"
     /\ cmpFirst # ""
     /\ HasKey(cmpActual, cmpFirst)
     /\ IsNumber(MapGet(cmpDesired, cmpFirst).kind)
     /\ IsNumber(MapGet(cmpActual, cmpFirst).kind)) =>
        MapGet(cmpDesired, cmpFirst).num = MapGet(cmpActual, cmpFirst).num

(***************************************************************************)
(* Properties of the passes on an Organization.                            *)
(***************************************************************************)
RoleLists == {"Admins", "Editors", "Viewers", "UsersWithoutAccess"}

\* How often a list holds an email.
Occurrences(list, email) == Cardinality({i \in 1..Len(list) : list[i] = email})

\* Every role list of the one holds the emails of the same list of the
\* other, each as often.
ListsMatch(spec, actual) ==
    \A l \in RoleLists : \A e \in PassEmails :
        Occurrences(spec[l], e) = Occurrences(actual[l], e)

\* C37: Observe, which reports the role lists equal through
\* usersEqualIgnoreOrder, reports them equal exactly when each declared list
\* holds the same emails as often as the list it fetched.
C37_EqualIffSameUsers ==
    upObserved \in {"upToDate", "notUpToDate"} =>
        ((upObserved = "upToDate") <=> ListsMatch(usrSpec, upActual))

\* C32: an Update that fetched the role lists called the gateway only when
\* a declared list differs from the list fetched; when all four match it
\* made no call and returned no error.
C32_NoCallWhenListsMatch ==
    upResult \in {"ok", "error"} =>
        /\ ListsMatch(usrSpec, usrActual) => (usrCalls = <<>> /\ upResult = "ok")
        /\ usrCalls # <<>> => ~ListsMatch(usrSpec, usrActual)

\* Observe reported a difference, the members were changed by someone else
\* to what is declared, and Update returned with no call made.
C32_Witness ==
    /\ upObserved = "notUpToDate"
    /\ upResult = "ok"
    /\ usrActual # upActual
    /\ ListsMatch(usrSpec, usrActual)
    /\ usrCalls = <<>>
    /\ usrSpec.Admins # <<>>

\* No call of the gateway has failed.
EveryCallSucceeded ==
    /\ upObserved # "error"
    /\ upResult \notin {"error", "fetchError"}
    /\ usrErr = NoError
    /\ \A i \in 1..Len(usrCalls) : usrCalls[i].resp = "ok"

\* C34: when no call of the gateway ever fails and nobody else changes the
\* members, the passes reach an Observe that reports the Organization up to
\* date.
C34_EventuallyUpToDate == ([]EveryCallSucceeded) => <>(upObserved = "upToDate")

(***************************************************************************)
(* Properties of Update and of a resource deleted by someone else.         *)
(***************************************************************************)
\* The calls that fetch a resource.
FetchOps ==
    ByNameOps \cup {"GetDataSourceById", "GetFolderByUid", "GetFolderById", "GetDashboardByUid"}

\* C31: an Update that calls a mutation has, before it, fetched the resource
\* with a call of its own.
C31_UpdateFetchesFirst ==
    rcOp = "Update" =>
        \A i \in (rcMark + 1)..Len(rcCalls) :
            rcCalls[i].op \in MutationOps =>
                \E j \in (rcMark + 1)..(i - 1) : rcCalls[j].op \in FetchOps

\* The Status Record of a Folder or Dashboard holds the UID of a resource
\* that was deleted.
StaleIdentity ==
    /\ rcKind \in {"folder", "dashboard"}
    /\ rcStatus.ID # 0
    /\ rcRemote[rcStatus.ID] = Gone

\* Observe found the resource.
ObservedPresent == rcOp = "Observe" /\ rcResult \in {"upToDate", "notUpToDate"}

\* C35: when the gateway answers every call with the true answer, a Folder
\* or Dashboard deleted by someone else is found present by a later Observe.
C35_DeletedIsFoundAgain == ([]TrueAnswers) => (StaleIdentity ~> ObservedPresent)

(***************************************************************************)
(* Properties of two deletions of Organizations at once.                   *)
(***************************************************************************)
\* C38: no call of DeleteOrgByID of the two deletions is made for an
\* organization that is the account's active organization when it is made.
C38_NoDeleteOfActiveOrg ==
    \A i \in DOMAIN cdCalls :
        cdCalls[i].call.op = "DeleteOrgByID" => cdCalls[i].call.active # cdCalls[i].call.arg

====
